---- MODULE Spec2Model ----
(***************************************************************************)
(* A model of the widget manager of rentex (src/widgets/manager.rs), the   *)
(* button widget it stores (src/widgets/button.rs), the rectangle test     *)
(* (src/widgets/mod.rs), the mouse snapshot (src/mouse.rs), the layout     *)
(* manager (src/layout.rs), the font table (src/fonts.rs), the input       *)
(* state (src/input.rs), the declarative element stores (src/ctx.rs,      *)
(* src/ui.rs), the scene of draw commands (src/scene.rs), the interaction  *)
(* manager (src/interaction.rs) and the event loop (src/app.rs).           *)
(*                                                                         *)
(* f32 coordinates are modelled as integers.  A Rust Option is a sequence  *)
(* of length 0 (None) or 1 (Some(v)).  A panic terminates the process: it  *)
(* records its message and no operation is enabled afterwards.             *)
(***************************************************************************)
EXTENDS Integers, Sequences, FiniteSets, TLC

(* ---------------------------- bounds ----------------------------------- *)

\* number of widgets the application creates at most
MaxWidgets == 2
\* number of widgets in the specifications that move the pointer over them
MaxHit == 1
\* pointer positions and widget positions range over 0..MaxCoord
MaxCoord == 1
\* number of draw commands a Scene holds at most
MaxCommands == 2

(* ------------------------ program constants ---------------------------- *)

\* Fonts::default_padding
default_padding == 12

(* ------------------------------ state ---------------------------------- *)

VARIABLES
    widgets,    \* WidgetManager.widgets: Vec<Box<dyn Widget>>, in push order
    next_id,    \* WidgetManager.next_id
    dirty,      \* WidgetManager.dirty
    panicked,   \* the message of the panic that terminated the process, "" while it runs
    handles,    \* history: identities of the handles returned by button(), in call order
    last,       \* history: the most recent call and what it returned
    gotMut,     \* history: a get_mut has returned a guard since the latest take_dirty
    wrote,      \* history: a guard has been dereferenced mutably since the latest take_dirty
    taken,      \* history: take_dirty has been called at least once
    snap,       \* history: the widgets' visible state at the latest take_dirty
                \*          (None in a specification that does not record it)
    updTrue,    \* history: an update_all since the latest take_dirty has returned true
    containers, \* LayoutManager.containers: Vec<Container>, in creation order
    builder,    \* the live ContainerBuilder: Some(its index), None once it was dropped
    fonts,      \* a Fonts: entries, measure_cache, next_id
    input,      \* an InputState
    ctx,        \* a Ctx: rects, texts, buttons, dirty
    ui,         \* a Ui: rects, texts, buttons, dirty
    scene,      \* App::run's Scene: commands, dirty
    interaction,\* App::run's InteractionManager: hovered_elements, prev_hovered_elements
    redraw,     \* the window has a redraw request pending
    hist        \* history of the scene and of the callbacks:
                \*   cleaned   the command list at the latest mark_clean, None before it
                \*   processed process_interactions has been called directly
                \*   inside    the buttons that held the pointer at the latest
                \*             direct process_interactions call
                \*   told      per command index, the latest on_hover invocation
                \*             of a direct process_interactions call
                \*   held      the left button is physically down
                \*   clicks    per command index, the on_click invocations of
                \*             the event loop since the left button last went down

\* the scene application's objects
app == <<scene, interaction, redraw, hist>>

\* the objects the widget manager and the layout manager do not touch
objects == <<fonts, input, ctx, ui, app>>

\* the widget manager's fields and the history of its calls
manager == <<widgets, next_id, dirty, handles, gotMut, wrote, taken, snap, updTrue>>

vars == <<manager, panicked, last, containers, builder, objects>>

None == <<>>
Some(v) == <<v>>

Coords == 0..MaxCoord

(* ------------------------------ Rect ----------------------------------- *)

\* Rect::default(): the zero rectangle at the origin
Rect_default == [x |-> 0, y |-> 0, w |-> 0, h |-> 0]

\* Rect::contains: both edges inclusive
Rect_contains(r, x, y) ==
    x >= r.x /\ x <= r.x + r.w /\ y >= r.y /\ y <= r.y + r.h

(* --------------------------- MouseState -------------------------------- *)

\* the six one-frame edge flags of a snapshot
Edges == {"left_just_pressed", "left_just_released",
          "right_just_pressed", "right_just_released",
          "middle_just_pressed", "middle_just_released"}

\* MouseState: position, per-frame delta and edge flags.  The level flags
\* and the scroll delta are read by no widget code and are left out.
MouseState(x, y, dx, dy, edges) ==
    [x |-> x, y |-> y, dx |-> dx, dy |-> dy,
     left_just_pressed    |-> "left_just_pressed" \in edges,
     left_just_released   |-> "left_just_released" \in edges,
     right_just_pressed   |-> "right_just_pressed" \in edges,
     right_just_released  |-> "right_just_released" \in edges,
     middle_just_pressed  |-> "middle_just_pressed" \in edges,
     middle_just_released |-> "middle_just_released" \in edges]

\* the pointer did not move, or moved by one unit along the x axis
Deltas == {<<0, 0>>, <<1, 0>>, <<-1, 0>>}

\* no edge, one edge, or the left button going down and up in one frame
EdgeSets ==
    {{}} \cup {{e} : e \in Edges} \cup {{"left_just_pressed", "left_just_released"}}

\* the pointer is on the row y = 0 or on the row below the last coordinate
MouseInputs ==
    {MouseState(x, y, d[1], d[2], e) :
        x \in Coords, y \in {0, MaxCoord + 1}, d \in Deltas, e \in EdgeSets}

\* a snapshot carries a press or release edge of some button
AnyEdge(m) ==
    \/ m.left_just_pressed  \/ m.left_just_released
    \/ m.right_just_pressed \/ m.right_just_released
    \/ m.middle_just_pressed \/ m.middle_just_released

(* ------------------------------ Fonts ---------------------------------- *)

\* the font ids the application has registered with Fonts::add
FontIds == {0}

\* Fonts.entries: the FontEntry of every registered font
FontEntries == [f \in FontIds |-> [family |-> "mono", size |-> 10]]

\* FontEntry.size of a registered font
FontSize(f) == FontEntries[f].size

\* Fonts::measure: (width of the first shaped line, line height = size * 1.4);
\* the shaper is external, a glyph is taken to advance by the font size
Fonts_measure(text, f) ==
    <<Len(text) * FontSize(f), (FontSize(f) * 14) \div 10>>

(* ------------------------- Fonts (the struct) -------------------------- *)

\* Fonts::new: no font, an empty measure cache, the id counter at 0.  entries
\* maps a font id to its FontEntry; measure_cache lists its (key, value)
\* entries in insertion order
Fonts_new == [entries |-> <<>>, measure_cache |-> <<>>, next_id |-> 0]

(* ----------------------------- InputState ------------------------------ *)

\* enum MouseButton
MouseButtons == {"Left", "Right", "Middle"}

\* InputState::new
InputState_new ==
    [mouse_position      |-> <<0, 0>>,
     mouse_position_prev |-> <<0, 0>>,
     pressed_buttons     |-> [b \in MouseButtons |-> FALSE],
     just_pressed        |-> [b \in MouseButtons |-> FALSE],
     just_released       |-> [b \in MouseButtons |-> FALSE]]

(* ----------------------------- Ctx and Ui ------------------------------ *)

\* Ctx::new and Ui::new: the three collections are empty, nothing is dirty
Ctx_new == [rects |-> <<>>, texts |-> <<>>, buttons |-> <<>>, dirty |-> FALSE]
Ui_new == [rects |-> <<>>, texts |-> <<>>, buttons |-> <<>>, dirty |-> FALSE]

(* ------------------- Scene and InteractionManager ---------------------- *)

\* command indices, as enumerate() numbers them
Indices == 0..(MaxCommands - 1)

\* Scene::new: no commands, dirty
Scene_new == [commands |-> <<>>, dirty |-> TRUE]

\* InteractionManager::new
InteractionManager_new == [hovered_elements |-> {}, prev_hovered_elements |-> {}]

\* nothing has happened yet
NoHistory ==
    [cleaned |-> None, processed |-> FALSE, inside |-> {},
     told |-> [idx \in Indices |-> ""], held |-> FALSE,
     clicks |-> [idx \in Indices |-> 0]]

\* the objects as their constructors leave them, no builder alive
Fresh ==
    /\ builder = <<>>
    /\ fonts = Fonts_new
    /\ input = InputState_new
    /\ ctx = Ctx_new
    /\ ui = Ui_new
    /\ scene = Scene_new
    /\ interaction = InteractionManager_new
    /\ redraw = FALSE
    /\ hist = NoHistory

(* --------------------------- ButtonWidget ------------------------------ *)

\* colours are [f32; 4] with channels in percent
Black == <<0, 0, 0, 0>>

\* the colours the application passes to color(), hover_color(), press_color()
Grey == <<50, 50, 50, 100>>
Red  == <<100, 0, 0, 100>>
Blue == <<0, 0, 100, 100>>

\* a constructor that drops the identity it is given
ButtonWidget_new_no_id(id, text) ==
    [kind |-> "ButtonWidget",
     id |-> 0, text |-> text, font |-> None, bounds |-> Rect_default,
     color |-> Black, hover_color |-> None, press_color |-> None,
     auto_size |-> FALSE,
     hovered |-> FALSE, pressed |-> FALSE,
     just_hovered |-> FALSE, just_unhovered |-> FALSE,
     just_clicked |-> FALSE, just_pressed |-> FALSE, right_clicked |-> FALSE]

\* ButtonWidget::new
ButtonWidget_new(id, text) ==
    [kind |-> "ButtonWidget",
     id |-> id, text |-> text, font |-> None, bounds |-> Rect_default,
     color |-> Black, hover_color |-> None, press_color |-> None,
     auto_size |-> FALSE,
     hovered |-> FALSE, pressed |-> FALSE,
     just_hovered |-> FALSE, just_unhovered |-> FALSE,
     just_clicked |-> FALSE, just_pressed |-> FALSE, right_clicked |-> FALSE]

\* the builder methods of ButtonWidget, applied through a &mut ButtonWidget
Mutate(w, mu) ==
    CASE mu.m = "position"    -> [w EXCEPT !.bounds.x = mu.x, !.bounds.y = mu.y]
      [] mu.m = "size"        -> [w EXCEPT !.auto_size = FALSE,
                                           !.bounds.w = mu.w, !.bounds.h = mu.h]
      [] mu.m = "font"        -> [w EXCEPT !.font = Some(mu.f)]
      [] mu.m = "auto_size"   -> [w EXCEPT !.auto_size = TRUE]
      [] mu.m = "color"       -> [w EXCEPT !.color = mu.c]
      [] mu.m = "hover_color" -> [w EXCEPT !.hover_color = Some(mu.c)]
      [] mu.m = "press_color" -> [w EXCEPT !.press_color = Some(mu.c)]
      [] mu.m = "text"        -> [w EXCEPT !.text = mu.t]

\* an update that skips the hit test: the pointer counts as inside
ButtonWidget_update_no_hit(w, mouse) ==
    LET over         == TRUE
        just_pressed == over /\ mouse.left_just_pressed
    IN [w EXCEPT
          !.just_hovered   = over /\ ~w.hovered,
          !.just_unhovered = ~over /\ w.hovered,
          !.hovered        = over,
          !.just_pressed   = just_pressed,
          !.just_clicked   = over /\ mouse.left_just_released /\ w.pressed,
          !.right_clicked  = over /\ mouse.right_just_released,
          !.pressed        = IF just_pressed THEN TRUE
                             ELSE IF mouse.left_just_released THEN FALSE
                             ELSE w.pressed]

\* an update whose hover pulse is the hover level
ButtonWidget_update_latched(w, mouse) ==
    LET over         == Rect_contains(w.bounds, mouse.x, mouse.y)
        just_pressed == over /\ mouse.left_just_pressed
    IN [w EXCEPT
          !.just_hovered   = over,
          !.just_unhovered = ~over /\ w.hovered,
          !.hovered        = over,
          !.just_pressed   = just_pressed,
          !.just_clicked   = over /\ mouse.left_just_released /\ w.pressed,
          !.right_clicked  = over /\ mouse.right_just_released,
          !.pressed        = IF just_pressed THEN TRUE
                             ELSE IF mouse.left_just_released THEN FALSE
                             ELSE w.pressed]

\* ButtonWidget::update
ButtonWidget_update(w, mouse) ==
    LET over         == Rect_contains(w.bounds, mouse.x, mouse.y)
        just_pressed == over /\ mouse.left_just_pressed
    IN [w EXCEPT
          !.just_hovered   = over /\ ~w.hovered,
          !.just_unhovered = ~over /\ w.hovered,
          !.hovered        = over,
          !.just_pressed   = just_pressed,
          !.just_clicked   = over /\ mouse.left_just_released /\ w.pressed,
          !.right_clicked  = over /\ mouse.right_just_released,
          !.pressed        = IF just_pressed THEN TRUE
                             ELSE IF mouse.left_just_released THEN FALSE
                             ELSE w.pressed]

Min(a, b) == IF a < b THEN a ELSE b

\* darken: the colour channels scaled by factor (in percent), alpha kept
darken(c, factor) ==
    <<(c[1] * factor) \div 100, (c[2] * factor) \div 100, (c[3] * factor) \div 100, c[4]>>

\* lighten: the colour channels scaled by factor and clamped to 1.0, alpha kept
lighten(c, factor) ==
    <<Min((c[1] * factor) \div 100, 100), Min((c[2] * factor) \div 100, 100),
      Min((c[3] * factor) \div 100, 100), c[4]>>

\* ButtonWidget::render panics when no font was set
RenderPanics(w) == w.font = None

NoFontMsg == "ButtonWidget has no font, call .font(font_id) before rendering"

\* ButtonWidget::render, the widget after the call: auto-sizing writes the bounds
ButtonWidget_render(w) ==
    LET m == Fonts_measure(w.text, w.font[1])
    IN IF w.auto_size
       THEN [w EXCEPT !.bounds.w = m[1] + default_padding * 2,
                      !.bounds.h = m[2] + default_padding * 2]
       ELSE w

\* a fill colour that looks at hovered before pressed
FillColor_hover_first(w) ==
    IF w.hovered
    THEN (IF w.hover_color = None THEN lighten(w.color, 120) ELSE w.hover_color[1])
    ELSE IF w.pressed
    THEN (IF w.press_color = None THEN darken(w.color, 70) ELSE w.press_color[1])
    ELSE w.color

\* ButtonWidget::render, the fill colour handed to drawer.rect
FillColor(w) ==
    IF w.pressed
    THEN (IF w.press_color = None THEN darken(w.color, 70) ELSE w.press_color[1])
    ELSE IF w.hovered
    THEN (IF w.hover_color = None THEN lighten(w.color, 120) ELSE w.hover_color[1])
    ELSE w.color

(* --------------------------- WidgetHandle ------------------------------ *)

\* the concrete widget kinds a handle's type tag can name
WidgetKinds == {"ButtonWidget", "SliderWidget"}

\* WidgetHandle::new: the identity and the phantom type tag
WidgetHandle(id, kind) == [id |-> id, kind |-> kind]

\* the handles a caller can present: the manager's own ones and handles that
\* were made for another manager (other identities, other widget kinds)
HandleInputs == {WidgetHandle(i, k) : i \in 0..MaxWidgets, k \in WidgetKinds}

\* the handles this manager's factory has returned
OwnHandles == {WidgetHandle(handles[k], "ButtonWidget") : k \in 1..Len(handles)}

(* --------------------------- WidgetManager ----------------------------- *)

\* alloc_id that does not advance the counter
alloc_id_stuck(n) == [id |-> n, next_id |-> n]

\* WidgetManager::alloc_id: the identity handed out and the counter afterwards
alloc_id(n) == [id |-> n, next_id |-> n + 1]

\* the loop of get / get_mut: the index of the first widget with the handle's
\* identity, 0 when the loop runs off the end
FindWidget(ws, h) ==
    IF \E i \in 1..Len(ws) : ws[i].id = h.id
    THEN CHOOSE i \in 1..Len(ws) :
            /\ ws[i].id = h.id
            /\ \A j \in 1..(i - 1) : ws[j].id # h.id
    ELSE 0

\* downcast_ref::<T>() / downcast_mut::<T>() succeeds
Downcasts(w, h) == w.kind = h.kind

\* a lookup that does not check the widget kind
LookupPanics_unchecked(ws, h) == FindWidget(ws, h) = 0

\* get / get_mut end in a panic: identity not found, or widget type mismatch
LookupPanics(ws, h) ==
    \/ FindWidget(ws, h) = 0
    \/ ~Downcasts(ws[FindWidget(ws, h)], h)

\* the message get / get_mut panic with
LookupMsg(ws, h) ==
    IF FindWidget(ws, h) = 0 THEN "widget not found" ELSE "widget type mismatch"

\* the process has not panicked
Running == panicked = ""

\* one more call has been made: its name, its argument, what it returned,
\* and the parity of the number of calls so far
Called(op, arg, ret) == [op |-> op, arg |-> arg, ret |-> ret, n |-> 1 - last.n]

\* what a widget shows on screen
Visible(w) ==
    [bounds |-> w.bounds, text |-> w.text, color |-> w.color,
     hover_color |-> w.hover_color, press_color |-> w.press_color,
     hovered |-> w.hovered, pressed |-> w.pressed]

\* WidgetManager::new and LayoutManager::new
New ==
    /\ widgets = <<>>
    /\ next_id = 0
    /\ dirty = TRUE
    /\ panicked = ""
    /\ handles = <<>>
    /\ last = [op |-> "new", arg |-> None, ret |-> None, n |-> 0]
    /\ gotMut = FALSE
    /\ wrote = FALSE
    /\ taken = FALSE
    /\ updTrue = FALSE
    /\ containers = <<>>
    /\ Fresh

Init == New /\ snap = None

\* WidgetManager::button
Button(text) ==
    /\ Running
    /\ LET a == alloc_id(next_id)
       IN /\ widgets' = Append(widgets, ButtonWidget_new(a.id, text))
          /\ next_id' = a.next_id
          /\ handles' = Append(handles, a.id)
          /\ last' = Called("button", text, Some(a.id))
    /\ UNCHANGED <<dirty, panicked, gotMut, wrote, taken, snap, updTrue, containers, builder, objects>>

\* WidgetManager::get: a shared reference to the stored widget (its index), or a panic
Get(h) ==
    /\ Running
    /\ IF LookupPanics(widgets, h)
       THEN /\ panicked' = LookupMsg(widgets, h)
            /\ last' = Called("get", h, None)
       ELSE /\ panicked' = ""
            /\ last' = Called("get", h, Some(FindWidget(widgets, h)))
    /\ UNCHANGED <<widgets, next_id, dirty, handles, gotMut, wrote, taken, snap, updTrue, containers, builder, objects>>

\* the use goes through DerefMut
Writes(use) == use.m \notin {"drop", "read"}

\* deref_mut that hands out the widget and does not set the flag
deref_mut_silent(d) == d

\* WidgetMut::deref_mut: the manager's flag after the call
deref_mut(d) == TRUE

\* a deref that sets the flag as deref_mut does
deref_dirties(d) == TRUE

\* WidgetMut::deref: the manager's flag after the call
deref(d) == d

\* WidgetManager::get_mut and what the caller does with the WidgetMut guard:
\* drop it unused, read through it (Deref), or call one builder method
\* through it (DerefMut)
GetMut(h, use) ==
    /\ Running
    /\ IF LookupPanics(widgets, h)
       THEN /\ panicked' = LookupMsg(widgets, h)
            /\ last' = Called("get_mut", h, None)
            /\ UNCHANGED <<widgets, dirty, gotMut, wrote>>
       ELSE LET i == FindWidget(widgets, h)
            IN /\ panicked' = ""
               /\ last' = Called("get_mut", h, Some(i))
               /\ gotMut' = TRUE
               /\ IF Writes(use)
                  THEN /\ dirty' = deref_mut(dirty)
                       /\ widgets' = [widgets EXCEPT ![i] = Mutate(@, use)]
                       /\ wrote' = TRUE
                  ELSE /\ dirty' = (IF use.m = "read" THEN deref(dirty) ELSE dirty)
                       /\ UNCHANGED <<widgets, wrote>>
    /\ UNCHANGED <<next_id, handles, taken, snap, updTrue, containers, builder, objects>>

\* a change condition that takes every pointer movement for a change
WidgetChanged_on_move(w, mouse) ==
    \/ <<mouse.dx, mouse.dy>> # <<0, 0>>
    \/ mouse.left_just_pressed
    \/ mouse.left_just_released
    \/ mouse.right_just_pressed
    \/ mouse.right_just_released

\* the condition under which update_all sets changed for one widget
WidgetChanged(w, mouse) ==
    LET was_hovered == Rect_contains(w.bounds, mouse.x - mouse.dx, mouse.y - mouse.dy)
        is_hovered  == Rect_contains(ButtonWidget_update(w, mouse).bounds, mouse.x, mouse.y)
    IN \/ was_hovered # is_hovered
       \/ mouse.left_just_pressed
       \/ mouse.left_just_released
       \/ mouse.right_just_pressed
       \/ mouse.right_just_released

\* WidgetManager::update_all, the value returned
update_all_changed(ws, mouse) ==
    \E i \in 1..Len(ws) : WidgetChanged(ws[i], mouse)

\* WidgetManager::update_all
UpdateAll(mouse) ==
    /\ Running
    /\ widgets' = [i \in 1..Len(widgets) |-> ButtonWidget_update(widgets[i], mouse)]
    /\ last' = Called("update_all", mouse, Some(update_all_changed(widgets, mouse)))
    /\ updTrue' = (snap # None /\ (updTrue \/ update_all_changed(widgets, mouse)))
    /\ UNCHANGED <<next_id, dirty, panicked, handles, gotMut, wrote, taken, snap, containers, builder, objects>>

\* take_dirty that returns the flag and does not clear it
take_dirty_keeps(d) == [ret |-> d, dirty |-> d]

\* WidgetManager::take_dirty: the value returned and the flag afterwards
take_dirty(d) == [ret |-> d, dirty |-> FALSE]

\* WidgetManager::take_dirty
TakeDirty ==
    /\ Running
    /\ last' = Called("take_dirty", None, Some(take_dirty(dirty).ret))
    /\ dirty' = take_dirty(dirty).dirty
    /\ gotMut' = FALSE
    /\ wrote' = FALSE
    /\ taken' = TRUE
    /\ snap' = (IF snap = None THEN None
                ELSE Some([i \in 1..Len(widgets) |-> Visible(widgets[i])]))
    /\ updTrue' = FALSE
    /\ UNCHANGED <<widgets, next_id, panicked, handles, containers, builder, objects>>

\* a loop that walks the vector from its end
VisitOrder_rev(ws) == [k \in 1..Len(ws) |-> Len(ws) + 1 - k]

\* the order in which the loops over self.widgets.iter_mut() visit the widgets
VisitOrder(ws) == [k \in 1..Len(ws) |-> k]

\* the number of widgets render_all gets to: all of them, or those up to
\* and including the first one whose render panics
RenderReach(ws) ==
    IF \E k \in 1..Len(ws) : RenderPanics(ws[VisitOrder(ws)[k]])
    THEN CHOOSE k \in 1..Len(ws) :
            /\ RenderPanics(ws[VisitOrder(ws)[k]])
            /\ \A j \in 1..(k - 1) : ~RenderPanics(ws[VisitOrder(ws)[j]])
    ELSE Len(ws)

\* the drawer.rect calls of render_all: the identity and the fill colour of
\* every widget whose render got past the font check, in order of invocation
DrawerRects(ws) ==
    LET order == VisitOrder(ws)
        drawn == IF \E i \in 1..Len(ws) : RenderPanics(ws[i])
                 THEN RenderReach(ws) - 1 ELSE RenderReach(ws)
    IN [k \in 1..drawn |-> [id |-> ws[order[k]].id, color |-> FillColor(ws[order[k]])]]

\* WidgetManager::render_all; it returns nothing, what is recorded is the
\* rect calls its drawer argument received and the identities of the
\* widgets whose render it invoked, in order of invocation
RenderAll ==
    /\ Running
    /\ LET reach == RenderReach(widgets)
           order == VisitOrder(widgets)
       IN /\ last' = Called("render_all", DrawerRects(widgets),
                            Some([k \in 1..reach |-> widgets[order[k]].id]))
          /\ widgets' = [i \in 1..Len(widgets) |->
                            IF /\ \E k \in 1..reach : order[k] = i
                               /\ ~RenderPanics(widgets[i])
                            THEN ButtonWidget_render(widgets[i])
                            ELSE widgets[i]]
          /\ panicked' = (IF \E i \in 1..Len(widgets) : RenderPanics(widgets[i])
                           THEN NoFontMsg ELSE "")
    /\ UNCHANGED <<next_id, dirty, handles, gotMut, wrote, taken, snap, updTrue, containers, builder, objects>>

(* --------------------------- LayoutManager ----------------------------- *)

\* bound on the number of children listed in a container
MaxChildren == 2

\* f32::max
Max(a, b) == IF a > b THEN a ELSE b

\* Child::Widget(id) and Child::Container(idx); a container index is the
\* position in LayoutManager.containers, counted from 1
WidgetChild(id) == [kind |-> "Widget", ref |-> id]
ContainerChild(idx) == [kind |-> "Container", ref |-> idx]

\* struct Container
Container(direction, x, y, padding, gap, children) ==
    [direction |-> direction, x |-> x, y |-> y,
     padding |-> padding, gap |-> gap, children |-> children]

\* Widget::set_bounds of a button: the bounds are replaced
set_bounds(w, b) == [w EXCEPT !.bounds = b]

\* a lookup that falls back to the first widget
Lookup_first(ws, id) ==
    IF \E i \in 1..Len(ws) : ws[i].id = id
    THEN CHOOSE i \in 1..Len(ws) :
            /\ ws[i].id = id
            /\ \A j \in 1..(i - 1) : ws[j].id # id
    ELSE Min(1, Len(ws))

\* widgets.iter().find(|w| w.id() == *id): the index of the first widget with
\* the identity, 0 for None
Lookup(ws, id) ==
    IF \E i \in 1..Len(ws) : ws[i].id = id
    THEN CHOOSE i \in 1..Len(ws) :
            /\ ws[i].id = id
            /\ \A j \in 1..(i - 1) : ws[j].id # id
    ELSE 0

\* the extent <<w, h>> of a child along the container's main and cross axis
MainExtent(c, ext) == IF c.direction = "H" THEN ext[1] ELSE ext[2]
CrossExtent(c, ext) == IF c.direction = "H" THEN ext[2] ELSE ext[1]

\* a cursor that advances by the extent without the gap
Advance_no_gap(c, acc, ext) ==
    [cursor    |-> acc.cursor + MainExtent(c, ext),
     max_cross |-> Max(acc.max_cross, CrossExtent(c, ext))]

\* cursor += extent + gap; max_cross = max_cross.max(cross extent)
Advance(c, acc, ext) ==
    [cursor    |-> acc.cursor + MainExtent(c, ext) + c.gap,
     max_cross |-> Max(acc.max_cross, CrossExtent(c, ext))]

\* the size a container returns after its loop
Total(c, acc) ==
    IF c.direction = "H"
    THEN <<acc.cursor - c.gap + c.padding, acc.max_cross + c.padding * 2>>
    ELSE <<acc.max_cross + c.padding * 2, acc.cursor - c.gap + c.padding>>

\* a placement relative to where the widget is
Placed_relative(c, b, x, y, cursor) ==
    IF c.direction = "H"
    THEN [b EXCEPT !.x = b.x + x + cursor, !.y = b.y + y + c.padding]
    ELSE [b EXCEPT !.x = b.x + x + c.padding, !.y = b.y + y + cursor]

\* a placement that also widens the widget
Placed_stretched(c, b, x, y, cursor) ==
    IF c.direction = "H"
    THEN [b EXCEPT !.x = x + cursor, !.y = y + c.padding, !.w = b.w + 1]
    ELSE [b EXCEPT !.x = x + c.padding, !.y = y + cursor, !.w = b.w + 1]

\* the bounds a widget child is given by a container with origin (x, y)
Placed(c, b, x, y, cursor) ==
    IF c.direction = "H"
    THEN [b EXCEPT !.x = x + cursor, !.y = y + c.padding]
    ELSE [b EXCEPT !.x = x + c.padding, !.y = y + cursor]

\* the origin a container child is given by a container with origin (x, y)
ChildOrigin(c, x, y, cursor) ==
    IF c.direction = "H" THEN <<x + cursor, y + c.padding>>
                         ELSE <<x + c.padding, y + cursor>>

RECURSIVE measure_container(_, _, _), MeasureLoop(_, _, _, _)

\* the loop of measure_container after its first k children
MeasureLoop(c, cs, ws, k) ==
    IF k = 0
    THEN [cursor |-> c.padding, max_cross |-> 0]
    ELSE LET acc   == MeasureLoop(c, cs, ws, k - 1)
             child == c.children[k]
         IN IF child.kind = "Widget"
            THEN LET i == Lookup(ws, child.ref)
                 IN IF i = 0 THEN acc
                    ELSE Advance(c, acc, <<ws[i].bounds.w, ws[i].bounds.h>>)
            ELSE Advance(c, acc, measure_container(cs[child.ref], cs, ws))

\* measure_container: the size <<w, h>> of a container, nothing written
measure_container(c, cs, ws) == Total(c, MeasureLoop(c, cs, ws, Len(c.children)))

RECURSIVE set_container_origin(_, _, _, _, _), OriginLoop(_, _, _, _, _, _)

\* the loop of set_container_origin after its first k children
OriginLoop(idx, x, y, cs, ws, k) ==
    IF k = 0
    THEN [cursor |-> cs[idx].padding, widgets |-> ws]
    ELSE LET container == cs[idx]
             acc       == OriginLoop(idx, x, y, cs, ws, k - 1)
             child     == container.children[k]
         IN IF child.kind = "Widget"
            THEN LET i == Lookup(acc.widgets, child.ref)
                 IN IF i = 0 THEN acc
                    ELSE LET b == acc.widgets[i].bounds
                         IN [cursor  |-> acc.cursor + MainExtent(container, <<b.w, b.h>>)
                                         + container.gap,
                             widgets |-> [acc.widgets EXCEPT ![i] =
                                 set_bounds(@, Placed(container, b, x, y, acc.cursor))]]
            ELSE LET size == measure_container(cs[child.ref], cs, acc.widgets)
                     o    == ChildOrigin(container, x, y, acc.cursor)
                 IN [cursor  |-> acc.cursor + MainExtent(container, size) + container.gap,
                     widgets |-> set_container_origin(child.ref, o[1], o[2], cs, acc.widgets)]

\* a placement that takes (0, 0) for the origin it is given
set_container_origin_unmoved(idx, x, y, cs, ws) ==
    OriginLoop(idx, 0, 0, cs, ws, Len(cs[idx].children)).widgets

\* set_container_origin: the widgets after the subtree of container idx was
\* placed with its origin at (x, y)
set_container_origin(idx, x, y, cs, ws) ==
    OriginLoop(idx, x, y, cs, ws, Len(cs[idx].children)).widgets

RECURSIVE ComputeLoop(_, _, _, _)

\* the loop of Container::compute after its first k children
ComputeLoop(c, cs, ws, k) ==
    IF k = 0
    THEN [cursor |-> c.padding, max_cross |-> 0, widgets |-> ws]
    ELSE LET acc   == ComputeLoop(c, cs, ws, k - 1)
             child == c.children[k]
         IN IF child.kind = "Widget"
            THEN LET i == Lookup(acc.widgets, child.ref)
                 IN IF i = 0 THEN acc
                    ELSE LET b    == acc.widgets[i].bounds
                             next == Advance(c, acc, <<b.w, b.h>>)
                         IN [cursor    |-> next.cursor,
                             max_cross |-> next.max_cross,
                             widgets   |-> [acc.widgets EXCEPT ![i] =
                                 set_bounds(@, Placed(c, b, c.x, c.y, acc.cursor))]]
            ELSE LET size == measure_container(cs[child.ref], cs, acc.widgets)
                     o    == ChildOrigin(c, c.x, c.y, acc.cursor)
                     next == Advance(c, acc, size)
                 IN [cursor    |-> next.cursor,
                     max_cross |-> next.max_cross,
                     widgets   |-> set_container_origin(child.ref, o[1], o[2], cs, acc.widgets)]

\* a compute that returns the cursor and the cross extent as they stand
Container_compute_raw(c, cs, ws) ==
    LET acc == ComputeLoop(c, cs, ws, Len(c.children))
    IN [size |-> <<acc.cursor, acc.max_cross>>, widgets |-> acc.widgets]

\* Container::compute: the size it returns and the widgets afterwards
Container_compute(c, cs, ws) ==
    LET acc == ComputeLoop(c, cs, ws, Len(c.children))
    IN [size |-> Total(c, acc), widgets |-> acc.widgets]

\* a first loop that marks no container
is_child_never(cs) == [idx \in 1..Len(cs) |-> FALSE]

\* compute_all, first loop: the containers listed as a child of some container
is_child(cs) ==
    [idx \in 1..Len(cs) |->
        \E p \in 1..Len(cs) : \E k \in 1..Len(cs[p].children) :
            cs[p].children[k] = ContainerChild(idx)]

RECURSIVE RootsLoop(_, _, _)

\* compute_all, second loop after the first n containers: the widgets and the
\* sizes compute has returned for the roots
RootsLoop(cs, ws, n) ==
    IF n = 0
    THEN [widgets |-> ws, sizes |-> <<>>]
    ELSE LET acc == RootsLoop(cs, ws, n - 1)
         IN IF is_child(cs)[n] THEN acc
            ELSE LET r == Container_compute(cs[n], cs, acc.widgets)
                 IN [widgets |-> r.widgets,
                     sizes   |-> Append(acc.sizes, [idx |-> n, size |-> r.size])]

\* LayoutManager::compute_all
compute_all(cs, ws) == RootsLoop(cs, ws, Len(cs))

\* the containers that container i lists as children
Kids(cs, i) ==
    {cs[i].children[k].ref :
        k \in {j \in 1..Len(cs[i].children) : cs[i].children[j].kind = "Container"}}

RECURSIVE Below(_, _, _)

\* the containers the recursion enters from the containers of S within n calls
Below(cs, S, n) ==
    IF n = 0 THEN S
    ELSE Below(cs, S \cup UNION {Kids(cs, i) : i \in S}, n - 1)

\* compute_all never returns: the recursion of measure_container and
\* set_container_origin, entered from a root, reaches a container that lists
\* itself or one of its ancestors, and each call makes the next one
Recurses(cs) ==
    \E r \in 1..Len(cs) :
        /\ ~is_child(cs)[r]
        /\ \E j \in Below(cs, Kids(cs, r), Len(cs)) :
               j \in Below(cs, Kids(cs, j), Len(cs))

\* compute_all indexes is_child and containers out of range: some child
\* list names a container index the manager does not have
OutOfRange(cs) ==
    \E i \in 1..Len(cs) : \E k \in 1..Len(cs[i].children) :
        cs[i].children[k].kind = "Container" /\ cs[i].children[k].ref > Len(cs)

\* LayoutManager::compute_all on the manager's widgets, the builder's borrow
\* having ended; it returns nothing, what is recorded is the size each root's
\* compute returned.  An index out of range panics in the first loop; an
\* endless recursion overflows the stack and the process is aborted
ComputeAll ==
    /\ Running
    /\ builder' = None
    /\ IF OutOfRange(containers)
       THEN /\ panicked' = "index out of bounds"
            /\ last' = Called("compute_all", None, None)
            /\ UNCHANGED widgets
       ELSE IF Recurses(containers)
       THEN /\ panicked' = "thread has overflowed its stack"
            /\ last' = Called("compute_all", None, None)
            /\ UNCHANGED widgets
       ELSE /\ widgets' = compute_all(containers, widgets).widgets
            /\ last' = Called("compute_all", None,
                              Some(compute_all(containers, widgets).sizes))
            /\ UNCHANGED panicked
    /\ UNCHANGED <<next_id, dirty, handles, gotMut, wrote, taken, snap, updTrue,
                   containers, objects>>

\* bound on the number of builder calls the application makes
MaxCalls == 5

\* the builder calls that produced the containers: one per container, one
\* per child, one per origin moved away from (0, 0)
BuilderCalls(cs) ==
    LET RECURSIVE Sum(_)
        Sum(n) == IF n = 0 THEN 0
                  ELSE Sum(n - 1) + 1 + Len(cs[n].children)
                       + (IF <<cs[n].x, cs[n].y>> = <<0, 0>> THEN 0 ELSE 1)
    IN Sum(Len(cs))

\* LayoutManager::hstack / vstack: a container with the defaults is pushed and
\* its builder returned; the borrow of the manager ends any earlier builder
Stack(direction, op) ==
    /\ Running
    /\ BuilderCalls(containers) < MaxCalls
    /\ containers' = Append(containers, Container(direction, 0, 0, 0, 0, <<>>))
    /\ builder' = Some(Len(containers) + 1)
    /\ last' = Called(op, None, Some(Len(containers) + 1))
    /\ UNCHANGED <<manager, panicked, objects>>

\* LayoutManager::hstack
Hstack == Stack("H", "hstack")

\* LayoutManager::vstack
Vstack == Stack("V", "vstack")

\* ContainerBuilder::position
Position(x, y) ==
    /\ Running
    /\ builder # None
    /\ BuilderCalls(containers) < MaxCalls
    /\ containers' = [containers EXCEPT ![builder[1]].x = x, ![builder[1]].y = y]
    /\ last' = Called("position", <<x, y>>, None)
    /\ UNCHANGED <<manager, panicked, builder, objects>>

\* ContainerBuilder::add
Add(handle) ==
    /\ Running
    /\ builder # None
    /\ BuilderCalls(containers) < MaxCalls
    /\ Len(containers[builder[1]].children) < MaxChildren
    /\ containers' = [containers EXCEPT ![builder[1]].children =
                          Append(@, WidgetChild(handle.id))]
    /\ last' = Called("add", handle, None)
    /\ UNCHANGED <<manager, panicked, builder, objects>>

\* ContainerBuilder::as_ref: ContainerRef { index }
as_ref(index) == index

\* the ContainerRefs the application can hold: as_ref of every builder it
\* has had, the live one included
ContainerRefs == {as_ref(index) : index \in 1..Len(containers)}

\* ContainerBuilder::add_container
AddContainer(other) ==
    /\ Running
    /\ builder # None
    /\ BuilderCalls(containers) < MaxCalls
    /\ Len(containers[builder[1]].children) < MaxChildren
    /\ containers' = [containers EXCEPT ![builder[1]].children =
                          Append(@, ContainerChild(other))]
    /\ last' = Called("add_container", other, None)
    /\ UNCHANGED <<manager, panicked, builder, objects>>

(* ------------------------ Fonts (operations) --------------------------- *)

\* bound on the number of fonts the application registers
MaxFonts == 1

\* HashMap::get on the measure cache: the position of the key, 0 when absent
CacheFind(cache, key) ==
    IF \E k \in 1..Len(cache) : cache[k].key = key
    THEN CHOOSE k \in 1..Len(cache) : cache[k].key = key
    ELSE 0

\* HashMap::insert: the value of a key that is present is replaced
HashMap_insert(cache, key, value) ==
    IF CacheFind(cache, key) = 0
    THEN Append(cache, [key |-> key, value |-> value])
    ELSE [cache EXCEPT ![CacheFind(cache, key)].value = value]

\* Fonts::add
FontsAdd(family, size) ==
    /\ Running
    /\ fonts.next_id < MaxFonts
    /\ fonts' = [fonts EXCEPT
                    !.next_id = @ + 1,
                    !.entries = [f \in DOMAIN @ \cup {fonts.next_id} |->
                                    IF f = fonts.next_id
                                    THEN [family |-> family, size |-> size]
                                    ELSE @[f]]]
    /\ last' = Called("add", <<family, size>>, Some(fonts.next_id))
    /\ UNCHANGED <<manager, panicked, containers, builder, app, input, ctx, ui>>

\* a measure that shapes the text on every call
measure_uncached(fs, text, font_id, line_w) ==
    IF font_id \notin DOMAIN fs.entries
    THEN [fonts |-> fs, ret |-> None,
          panic |-> "FontId not found - was it created from a different Fonts instance?"]
    ELSE LET result == <<line_w, (fs.entries[font_id].size * 14) \div 10>>
         IN [fonts |-> [fs EXCEPT !.measure_cache =
                           HashMap_insert(@, <<font_id, text>>, result)],
             ret   |-> Some(result),
             panic |-> ""]

\* Fonts::measure; line_w is the width the shaper gives the first line of
\* the text at the time of the call
measure(fs, text, font_id, line_w) ==
    LET key == <<font_id, text>>
        hit == CacheFind(fs.measure_cache, key)
    IN IF hit # 0
       THEN [fonts |-> fs, ret |-> Some(fs.measure_cache[hit].value), panic |-> ""]
       ELSE IF font_id \notin DOMAIN fs.entries
       THEN [fonts |-> fs, ret |-> None,
             panic |-> "FontId not found - was it created from a different Fonts instance?"]
       ELSE LET result == <<line_w, (fs.entries[font_id].size * 14) \div 10>>
            IN [fonts |-> [fs EXCEPT !.measure_cache = HashMap_insert(@, key, result)],
                ret   |-> Some(result),
                panic |-> ""]

\* Fonts::measure on the application's Fonts
FontsMeasure(text, font_id, line_w) ==
    /\ Running
    /\ LET r == measure(fonts, text, font_id, line_w)
       IN /\ fonts' = r.fonts
          /\ panicked' = r.panic
          /\ last' = Called("measure", <<font_id, text, line_w>>, r.ret)
    /\ UNCHANGED <<manager, containers, builder, app, input, ctx, ui>>

(* ---------------------- Ctx and Ui (operations) ------------------------ *)

\* an id check that looks at the rects only
id_exists_rects_only(store, id) ==
    \E k \in 1..Len(store.rects) : store.rects[k].id = id

\* Ctx::id_exists and Ui::id_exists
id_exists(store, id) ==
    \/ \E k \in 1..Len(store.rects) : store.rects[k].id = id
    \/ \E k \in 1..Len(store.texts) : store.texts[k].id = id
    \/ \E k \in 1..Len(store.buttons) : store.buttons[k].id = id

\* the panic of a declaration, "" when it goes through: the id is checked
\* first, then text looks its font up and button the default font (taken to
\* be the font registered first)
DeclarePanic(store, coll, id, font_id) ==
    IF id_exists(store, id)
    THEN "Element with id already exists!"
    ELSE IF coll = "texts" /\ font_id \notin DOMAIN fonts.entries
    THEN "FontId not found - was it created from a different Fonts instance?"
    ELSE IF coll = "buttons" /\ 0 \notin DOMAIN fonts.entries
    THEN "called Option::unwrap() on a None value"
    ELSE ""

\* Ctx::rect / text / button (target "ctx") and Ui::rect / text / button
\* (target "ui"): the element is pushed on its collection and the store
\* marked dirty, unless the call panics; button measures its text (taken to
\* be its id) in the default font first
Declare(target, coll, id, font_id, line_w) ==
    LET store == IF target = "ctx" THEN ctx ELSE ui
        panic == DeclarePanic(store, coll, id, font_id)
        after == [store EXCEPT ![coll] = Append(@, [id |-> id]), !.dirty = TRUE]
    IN /\ Running
       /\ panicked' = panic
       /\ last' = Called(coll, <<target, id>>, None)
       /\ ctx' = (IF panic = "" /\ target = "ctx" THEN after ELSE ctx)
       /\ ui' = (IF panic = "" /\ target = "ui" THEN after ELSE ui)
       /\ fonts' = (IF panic = "" /\ coll = "buttons"
                    THEN measure(fonts, id, 0, line_w).fonts ELSE fonts)
       /\ UNCHANGED <<manager, containers, builder, app, input>>

(* --------------------- InputState (operations) ------------------------- *)

\* a begin_frame that does not remember the position
begin_frame_keeps_prev(s) ==
    [s EXCEPT !.just_pressed = [b \in MouseButtons |-> FALSE],
              !.just_released = [b \in MouseButtons |-> FALSE]]

\* InputState::begin_frame
begin_frame(s) ==
    [s EXCEPT !.just_pressed = [b \in MouseButtons |-> FALSE],
              !.just_released = [b \in MouseButtons |-> FALSE],
              !.mouse_position_prev = s.mouse_position]

\* InputState::mouse_delta
mouse_delta(s) ==
    <<s.mouse_position[1] - s.mouse_position_prev[1],
      s.mouse_position[2] - s.mouse_position_prev[2]>>

\* InputState::begin_frame on the application's InputState; the state it
\* was called in is recorded
BeginFrame ==
    /\ Running
    /\ input' = begin_frame(input)
    /\ last' = Called("begin_frame", input, None)
    /\ UNCHANGED <<manager, panicked, containers, builder, app, fonts, ctx, ui>>

\* InputState::update_mouse_position
UpdateMousePosition(x, y) ==
    /\ Running
    /\ input' = [input EXCEPT !.mouse_position = <<x, y>>]
    /\ last' = Called("update_mouse_position", <<x, y>>, None)
    /\ UNCHANGED <<manager, panicked, containers, builder, app, fonts, ctx, ui>>

\* InputState::press_mouse_button
PressMouseButton(button) ==
    /\ Running
    /\ input' = (IF ~input.pressed_buttons[button]
                 THEN [input EXCEPT !.pressed_buttons[button] = TRUE,
                                    !.just_pressed[button] = TRUE]
                 ELSE input)
    /\ last' = Called("press_mouse_button", button, None)
    /\ UNCHANGED <<manager, panicked, containers, builder, app, fonts, ctx, ui>>

\* InputState::release_mouse_button
ReleaseMouseButton(button) ==
    /\ Running
    /\ input' = (IF input.pressed_buttons[button]
                 THEN [input EXCEPT !.pressed_buttons[button] = FALSE,
                                    !.just_released[button] = TRUE]
                 ELSE input)
    /\ last' = Called("release_mouse_button", button, None)
    /\ UNCHANGED <<manager, panicked, containers, builder, app, fonts, ctx, ui>>

(* ------------- the application that drives one manager ----------------- *)

\* the texts buttons are created with
Texts == {"a"}

\* the pointer rests on the origin, or it rests away from every widget
\* while the mouse buttons go down and up
RestingMouse ==
    {MouseState(0, 0, 0, 0, {})}
    \cup {MouseState(MaxCoord + 1, MaxCoord + 1, 0, 0, e) : e \in EdgeSets}

\* what the caller does with a guard
GuardUses ==
    {[m |-> "drop"], [m |-> "read"]} \cup {[m |-> "font", f |-> f] : f \in FontIds}

Next ==
    \/ \E t \in Texts : Len(widgets) < MaxWidgets /\ Button(t)
    \/ \E h \in HandleInputs : Get(h)
    \/ \E h \in HandleInputs, use \in GuardUses : GetMut(h, use)
    \/ \E m \in RestingMouse : UpdateAll(m)
    \/ TakeDirty
    \/ RenderAll

Spec == Init /\ [][Next]_vars

(* ------- the application that moves the pointer over its widgets ------- *)

\* the builder calls that move a widget
Moves == {[m |-> "position", x |-> x, y |-> 0] : x \in Coords}

NextInput ==
    \/ Len(widgets) < MaxHit /\ Button("a")
    \/ \E h \in OwnHandles, use \in Moves : GetMut(h, use)
    \/ \E m \in MouseInputs : UpdateAll(m)
    \/ TakeDirty

\* the visible state is recorded at every take_dirty
InitDirty == New /\ snap = Some(<<>>)

SpecDirty == InitDirty /\ [][NextInput]_vars

(* ------------- the application that drives one button ------------------ *)

\* ButtonWidget::update reads the widget's own fields and the snapshot only,
\* so one button shows what every button does: it is created, moved through
\* its guard, and updated with every snapshot
NextButton ==
    \/ widgets = <<>> /\ Button("a")
    \/ \E h \in OwnHandles, use \in Moves : GetMut(h, use)
    \/ \E m \in MouseInputs : UpdateAll(m)

SpecButton == Init /\ [][NextButton]_vars

(* ------------- the application that paints one button ------------------ *)

\* the builder calls that set the font and the colours
Paints ==
    {[m |-> "font", f |-> f] : f \in FontIds}
    \cup {[m |-> "color", c |-> Grey],
          [m |-> "hover_color", c |-> Red],
          [m |-> "press_color", c |-> Blue]}

\* the pointer rests on the origin or away from the button while the left
\* button goes down and up
Pointers ==
    {MouseState(x, 0, 0, 0, e) :
        x \in {0, MaxCoord + 1},
        e \in {{}, {"left_just_pressed"}, {"left_just_released"}}}

NextRender ==
    \/ widgets = <<>> /\ Button("a")
    \/ \E h \in OwnHandles, use \in Paints : GetMut(h, use)
    \/ \E m \in Pointers : UpdateAll(m)
    \/ RenderAll

SpecRender == Init /\ [][NextRender]_vars

(* ------------- the application that lays out its widgets --------------- *)

\* a button of the given size, as left by get_mut(h).size(w, h)
SizedButton(id, w, h) ==
    Mutate(ButtonWidget_new(id, "a"), [m |-> "size", w |-> w, h |-> h])

\* the sequences over S of at most n elements
SeqsUpTo(S, n) == UNION {[1..k -> S] : k \in 0..n}

\* what position(), padding() and gap() are called with: the defaults of
\* hstack() / vstack(), or a gap wider than twice the padding
Spacings ==
    {[x |-> 0, y |-> 0, padding |-> 0, gap |-> 0],
     [x |-> 4, y |-> 5, padding |-> 1, gap |-> 3]}

\* the containers hstack() / vstack() and the builder calls produce
Containers(children) ==
    {Container(d, s.x, s.y, s.padding, s.gap, ch) :
        d \in {"H", "V"}, s \in Spacings, ch \in children}

\* the widgets of a scene: two buttons of different sizes
SceneWidgets == <<SizedButton(0, 2, 1), SizedButton(1, 1, 3)>>

\* the widget children add() can list: the two buttons and a handle whose
\* identity no widget of the list has
WidgetChildren == {WidgetChild(0), WidgetChild(1), WidgetChild(2)}

\* two containers: the one created first lists widgets only, the one created
\* second may also list the first (a builder can only reference containers
\* that exist when its chain runs)
Scenes ==
    {[widgets |-> SceneWidgets, containers |-> <<inner, outer>>] :
        inner \in Containers(SeqsUpTo(WidgetChildren, MaxChildren)),
        outer \in Containers(SeqsUpTo(WidgetChildren \cup {ContainerChild(1)}, MaxChildren))}

\* root hstack (gap 16, padding 0) at (40, 40) holding vstack A (two 180x32
\* widgets, gap 10) and vstack B (one 180x18 widget)
NestedScene ==
    [widgets    |-> <<SizedButton(0, 180, 32), SizedButton(1, 180, 32),
                      SizedButton(2, 180, 18)>>,
     containers |-> <<Container("V", 0, 0, 0, 10, <<WidgetChild(0), WidgetChild(1)>>),
                      Container("V", 0, 0, 0, 0, <<WidgetChild(2)>>),
                      Container("H", 40, 40, 0, 16,
                                <<ContainerChild(1), ContainerChild(2)>>)>>]

\* the widgets and the containers are built, nothing is laid out yet
InitLayout ==
    /\ \E sc \in Scenes \cup {NestedScene} :
          /\ widgets = sc.widgets
          /\ containers = sc.containers
    /\ next_id = Len(widgets)
    /\ handles = [k \in 1..Len(widgets) |-> widgets[k].id]
    /\ dirty = TRUE
    /\ panicked = ""
    /\ last = [op |-> "new", arg |-> None, ret |-> None, n |-> 0]
    /\ gotMut = FALSE
    /\ wrote = FALSE
    /\ taken = FALSE
    /\ snap = None
    /\ updTrue = FALSE
    /\ Fresh

NextLayout == ComputeAll

SpecLayout == InitLayout /\ [][NextLayout]_vars

(* ------------- the application that builds its layout ----------------- *)

\* one button of size 2x1 exists; no container yet
InitBuilder ==
    /\ widgets = <<SizedButton(0, 2, 1)>>
    /\ containers = <<>>
    /\ next_id = Len(widgets)
    /\ handles = [k \in 1..Len(widgets) |-> widgets[k].id]
    /\ dirty = TRUE
    /\ panicked = ""
    /\ last = [op |-> "new", arg |-> None, ret |-> None, n |-> 0]
    /\ gotMut = FALSE
    /\ wrote = FALSE
    /\ taken = FALSE
    /\ snap = None
    /\ updTrue = FALSE
    /\ Fresh

NextBuilder ==
    \/ Hstack
    \/ Vstack
    \/ Position(4, 5)
    \/ \E h \in OwnHandles : Add(h)
    \/ \E other \in ContainerRefs : AddContainer(other)
    \/ ComputeAll

SpecBuilder == InitBuilder /\ [][NextBuilder]_vars

(* ------------- the application that has two layout managers ----------- *)

\* the ContainerRefs of the builders of another LayoutManager
ForeignRefs == {as_ref(index) : index \in 1..MaxCalls}

NextForeign ==
    \/ Hstack
    \/ Vstack
    \/ \E h \in OwnHandles : Add(h)
    \/ \E other \in ContainerRefs \cup ForeignRefs : AddContainer(other)
    \/ ComputeAll

SpecForeign == InitBuilder /\ [][NextForeign]_vars

(* ------------- the application that runs the frame loop --------------- *)

\* set up before the first frame: an auto-sized button and a button of a
\* fixed size, both with a font, listed in one hstack with a gap of 1
InitFrame ==
    /\ widgets = <<Mutate(Mutate(ButtonWidget_new(0, "a"), [m |-> "font", f |-> 0]),
                          [m |-> "auto_size"]),
                   Mutate(SizedButton(1, 2, 1), [m |-> "font", f |-> 0])>>
    /\ containers = <<Container("H", 0, 0, 0, 1, <<WidgetChild(0), WidgetChild(1)>>)>>
    /\ next_id = Len(widgets)
    /\ handles = [k \in 1..Len(widgets) |-> widgets[k].id]
    /\ dirty = TRUE
    /\ panicked = ""
    /\ last = [op |-> "new", arg |-> None, ret |-> None, n |-> 0]
    /\ gotMut = FALSE
    /\ wrote = FALSE
    /\ taken = FALSE
    /\ snap = None
    /\ updTrue = FALSE
    /\ Fresh

\* what the application callback does to a button
Edits ==
    {[m |-> "text", t |-> "a"], [m |-> "text", t |-> "ab"],
     [m |-> "auto_size"], [m |-> "size", w |-> 2, h |-> 1]}

\* one frame: update_all, the application callback (any number of get_mut
\* calls), compute_all, render_all; the most recent call tells how far the
\* frame has come
NextFrame ==
    \/ /\ last.op \in {"new", "render_all"}
       /\ \E x \in {0, MaxCoord + 1} : UpdateAll(MouseState(x, 0, 0, 0, {}))
    \/ /\ last.op \in {"update_all", "get_mut"}
       /\ \E h \in OwnHandles, use \in Edits : GetMut(h, use)
    \/ /\ last.op \in {"update_all", "get_mut"}
       /\ ComputeAll
    \/ /\ last.op = "compute_all"
       /\ RenderAll

SpecFrame == InitFrame /\ [][NextFrame]_vars

(* ------------- the application that measures its texts ---------------- *)

\* the widths the shaper can give a line
LineWidths == {7, 9}

NextFonts ==
    \/ \E size \in {10, 20} : FontsAdd("mono", size)
    \/ \E text \in {"a", "ab"}, font_id \in 0..MaxFonts, line_w \in LineWidths :
          FontsMeasure(text, font_id, line_w)

SpecFonts == Init /\ [][NextFonts]_vars

(* ------------- the application that declares its elements ------------- *)

\* the ids the application gives its elements
ElementIds == {"a", "b"}

NextElements ==
    \/ FontsAdd("mono", 10)
    \/ \E target \in {"ctx", "ui"}, id \in ElementIds :
          \/ Declare(target, "rects", id, 0, 0)
          \/ \E font_id \in 0..MaxFonts : Declare(target, "texts", id, font_id, 0)
          \/ \E line_w \in LineWidths : Declare(target, "buttons", id, 0, line_w)

SpecElements == Init /\ [][NextElements]_vars

(* ------------- the window events between two frames ------------------- *)

NextEvents ==
    \/ BeginFrame
    \/ \E c \in Coords : UpdateMousePosition(c, c)
    \/ \E button \in MouseButtons : PressMouseButton(button)
    \/ \E button \in MouseButtons : ReleaseMouseButton(button)

SpecEvents == Init /\ [][NextEvents]_vars

(* ------------------------------ Scene ---------------------------------- *)

\* a DrawCommand: its variant, where it is and how far it extends (a
\* circle's centre and a text's origin extend nowhere), and whether a
\* button carries an on_click and an on_hover callback
DrawCommand(kind, x, w, on_click, on_hover) ==
    [kind |-> kind, x |-> x, y |-> 0, w |-> w, h |-> 0,
     on_click |-> on_click, on_hover |-> on_hover]

\* the commands an application declares: one of each shape, a button on
\* the first cell and one on the second, both with callbacks, and a button
\* without callbacks over both cells
ShapeCommands ==
    {DrawCommand(kind, 0, 0, FALSE, FALSE) : kind \in {"Rect", "Circle", "RoundedRect", "Text"}}
ButtonCommands ==
    {DrawCommand("Button", 0, 0, TRUE, TRUE), DrawCommand("Button", 1, 0, TRUE, TRUE),
     DrawCommand("Button", 0, 1, FALSE, FALSE)}

\* the drop of a RectBuilder, CircleBuilder, RoundedRectBuilder, TextBuilder
\* or ButtonBuilder that was configured to cmd
Drop(s, cmd) == [commands |-> Append(s.commands, cmd), dirty |-> TRUE]

\* a clear that leaves the flag alone
clear_keeps_flag(s) == [s EXCEPT !.commands = <<>>]

\* Scene::clear
Scene_clear(s) == [commands |-> <<>>, dirty |-> TRUE]

\* a scene that always asks to be rebuilt
is_dirty_always(s) == TRUE

\* Scene::is_dirty
is_dirty(s) == s.dirty

\* Scene::mark_clean
mark_clean(s) == [s EXCEPT !.dirty = FALSE]

\* Scene::mark_dirty
mark_dirty(s) == [s EXCEPT !.dirty = TRUE]

\* scene.rect(..), scene.circle(..), scene.rounded_rect(..), scene.text(..)
\* or scene.button(..), the builder configured and dropped
SceneBuild(cmd) ==
    /\ Running
    /\ Len(scene.commands) < MaxCommands
    /\ scene' = Drop(scene, cmd)
    /\ last' = Called("drop", cmd, None)
    /\ UNCHANGED <<manager, panicked, containers, builder, fonts, input, ctx, ui,
                   interaction, redraw, hist>>

\* Scene::clear on the application's scene
SceneClear ==
    /\ Running
    /\ scene' = Scene_clear(scene)
    /\ last' = Called("clear", scene, None)
    /\ UNCHANGED <<manager, panicked, containers, builder, fonts, input, ctx, ui,
                   interaction, redraw, hist>>

\* Scene::mark_clean on the application's scene
SceneMarkClean ==
    /\ Running
    /\ scene' = mark_clean(scene)
    /\ hist' = [hist EXCEPT !.cleaned = Some(scene.commands)]
    /\ last' = Called("mark_clean", scene, None)
    /\ UNCHANGED <<manager, panicked, containers, builder, fonts, input, ctx, ui,
                   interaction, redraw>>

\* Scene::mark_dirty on the application's scene
SceneMarkDirty ==
    /\ Running
    /\ scene' = mark_dirty(scene)
    /\ last' = Called("mark_dirty", scene, None)
    /\ UNCHANGED <<manager, panicked, containers, builder, fonts, input, ctx, ui,
                   interaction, redraw, hist>>

(* ------------------------ InteractionManager --------------------------- *)

\* InteractionManager::point_in_rect: all four edges inclusive
point_in_rect(point, rect) ==
    /\ point[1] >= rect[1]
    /\ point[1] <= rect[1] + rect[3]
    /\ point[2] >= rect[2]
    /\ point[2] <= rect[2] + rect[4]

\* the loop of process_interactions from the k-th command on: im is the
\* manager so far, fired the callbacks invoked so far, each as
\* <<command index, callback, argument>>
RECURSIVE ProcessLoop(_, _, _, _, _)
ProcessLoop(commands, k, inp, im, fired) ==
    IF k > Len(commands) THEN [im |-> im, fired |-> fired]
    ELSE LET cmd == commands[k]
             idx == k - 1
             hovered == point_in_rect(inp.mouse_position, <<cmd.x, cmd.y, cmd.w, cmd.h>>)
             click == IF inp.just_pressed["Left"] /\ cmd.on_click
                      THEN << <<idx, "on_click", TRUE>> >> ELSE <<>>
             enter == IF idx \notin im.prev_hovered_elements /\ cmd.on_hover
                      THEN << <<idx, "on_hover", TRUE>> >> ELSE <<>>
             exit == IF idx \in im.prev_hovered_elements /\ cmd.on_hover
                     THEN << <<idx, "on_hover", FALSE>> >> ELSE <<>>
         IN IF cmd.kind # "Button" THEN ProcessLoop(commands, k + 1, inp, im, fired)
            ELSE IF hovered
                 THEN ProcessLoop(commands, k + 1, inp,
                                  [im EXCEPT !.hovered_elements = @ \cup {idx}],
                                  fired \o click \o enter)
                 ELSE ProcessLoop(commands, k + 1, inp, im, fired \o exit)

\* a process_interactions that does not remember the previous call
process_interactions_stale(im, commands, inp) ==
    ProcessLoop(commands, 1, inp, [im EXCEPT !.hovered_elements = {}], <<>>)

\* InteractionManager::process_interactions: the manager it leaves and the
\* callbacks it invokes, in order
process_interactions(im, commands, inp) ==
    ProcessLoop(commands, 1, inp,
                [hovered_elements |-> {}, prev_hovered_elements |-> im.hovered_elements],
                <<>>)

\* InteractionManager::is_hovered
is_hovered(im, index) == index \in im.hovered_elements

\* the command indices of the buttons that hold the point
ButtonsAt(commands, point) ==
    {k - 1 : k \in {j \in 1..Len(commands) :
                       /\ commands[j].kind = "Button"
                       /\ point_in_rect(point, <<commands[j].x, commands[j].y,
                                                 commands[j].w, commands[j].h>>)}}

\* how often the callback was invoked for the command at idx with arg
Invocations(fired, idx, callback, arg) ==
    Cardinality({j \in 1..Len(fired) : fired[j] = <<idx, callback, arg>>})

\* the history after a redraw that invoked fired
Clicked(h, fired) ==
    [h EXCEPT
       !.clicks = [idx \in Indices |->
                     Min(2, h.clicks[idx] + Invocations(fired, idx, "on_click", TRUE))]]

\* the history after a process_interactions call that invoked fired
Heard(h, commands, inp, fired) ==
    [h EXCEPT
       !.processed = TRUE,
       !.inside = ButtonsAt(commands, inp.mouse_position),
       !.told = [idx \in Indices |->
                   LET said == {j \in 1..Len(fired) :
                                   fired[j][1] = idx /\ fired[j][2] = "on_hover"}
                   IN IF said = {} THEN h.told[idx]
                      ELSE IF fired[CHOOSE j \in said : \A i \in said : i <= j][3]
                           THEN "enter" ELSE "exit"]]

\* interaction_manager.process_interactions(scene.commands(), &input_state)
ProcessInteractions ==
    LET r == process_interactions(interaction, scene.commands, input)
    IN /\ Running
       /\ interaction' = r.im
       /\ hist' = Heard(hist, scene.commands, input, r.fired)
       /\ last' = Called("process_interactions", input.mouse_position, r.fired)
       /\ UNCHANGED <<manager, panicked, containers, builder, fonts, input, ctx, ui,
                      scene, redraw>>

(* ------------------------ App (the event loop) ------------------------- *)

\* the positions the cursor takes, in logical coordinates (the event's
\* position divided by the scale factor): the cells of the row the buttons
\* are in, and one position off that row
Cursors == {<<x, 0>> : x \in Coords} \cup {<<0, 1>>}

\* the mouse buttons of the window system: the three of enum MouseButton
\* and one that it has no variant for
WinitMouseButtons == MouseButtons \cup {"Other"}

\* the command lists the user callback leaves: clear() was called before
\* it, each builder it drops appends one command
AppLists ==
    LET first == DrawCommand("Button", 0, 0, TRUE, TRUE)
        second == DrawCommand("Button", 1, 0, TRUE, TRUE)
        rect == DrawCommand("Rect", 0, 0, FALSE, FALSE)
    IN {<<>>, <<first>>, <<first, second>>, <<rect, first>>, <<second, first>>}

\* check_hover: the position is over some button
check_hover(commands, pos) ==
    \E k \in 1..Len(commands) :
       /\ commands[k].kind = "Button"
       /\ pos[1] >= commands[k].x
       /\ pos[1] <= commands[k].x + commands[k].w
       /\ pos[2] >= commands[k].y
       /\ pos[2] <= commands[k].y + commands[k].h

\* a press that is a pulse whenever the event arrives
press_always(s, button) ==
    [s EXCEPT !.pressed_buttons[button] = TRUE, !.just_pressed[button] = TRUE]

\* InputState::press_mouse_button
press_mouse_button(s, button) ==
    IF ~s.pressed_buttons[button]
    THEN [s EXCEPT !.pressed_buttons[button] = TRUE, !.just_pressed[button] = TRUE]
    ELSE s

\* InputState::release_mouse_button
release_mouse_button(s, button) ==
    IF s.pressed_buttons[button]
    THEN [s EXCEPT !.pressed_buttons[button] = FALSE, !.just_released[button] = TRUE]
    ELSE s

\* WindowEvent::CursorMoved to the logical position (x, y)
CursorMoved(x, y) ==
    LET old_pos == input.mouse_position
        new_pos == <<x, y>>
        old_hovered == check_hover(scene.commands, old_pos)
        new_hovered == check_hover(scene.commands, new_pos)
    IN /\ Running
       /\ input' = [input EXCEPT !.mouse_position = new_pos]
       /\ redraw' = (redraw \/ old_hovered # new_hovered)
       /\ last' = Called("CursorMoved", new_pos, old_hovered # new_hovered)
       /\ UNCHANGED <<manager, panicked, containers, builder, fonts, ctx, ui,
                      scene, interaction, hist>>

\* WindowEvent::MouseInput: a button the library has no variant for is
\* ignored; the history follows the left button
MouseInput(state, button) ==
    /\ Running
    /\ last' = Called("MouseInput", <<state, button>>, None)
    /\ IF button \notin MouseButtons
       THEN UNCHANGED <<input, redraw, hist>>
       ELSE /\ input' = (IF state = "Pressed" THEN press_mouse_button(input, button)
                         ELSE release_mouse_button(input, button))
            /\ redraw' = TRUE
            /\ hist' = (IF button # "Left" THEN hist
                        ELSE [hist EXCEPT
                                !.held = (state = "Pressed"),
                                !.clicks = IF state = "Pressed" /\ ~hist.held
                                           THEN [idx \in Indices |-> 0] ELSE @])
    /\ UNCHANGED <<manager, panicked, containers, builder, fonts, ctx, ui,
                   scene, interaction>>

\* WindowEvent::Resized and WindowEvent::ScaleFactorChanged
Resized ==
    /\ Running
    /\ scene' = mark_dirty(scene)
    /\ redraw' = TRUE
    /\ last' = Called("Resized", None, None)
    /\ UNCHANGED <<manager, panicked, containers, builder, fonts, input, ctx, ui,
                   interaction, hist>>

\* WindowEvent::RedrawRequested, on a request of the window or of the
\* window system: a dirty scene is cleared and rebuilt by the user callback,
\* interactions are processed, the frame is drawn, the scene is marked
\* clean and the input's frame begins
RedrawRequested ==
    \E built \in AppLists :
       LET rebuild == is_dirty(scene)
           rebuilt == IF rebuild THEN [Scene_clear(scene) EXCEPT !.commands = built]
                      ELSE scene
           r == process_interactions(interaction, rebuilt.commands, input)
       IN /\ Running
          /\ ~rebuild => built = <<>>
          /\ scene' = mark_clean(rebuilt)
          /\ interaction' = r.im
          /\ input' = begin_frame(input)
          /\ redraw' = FALSE
          /\ hist' = [Clicked(hist, r.fired) EXCEPT !.cleaned = Some(rebuilt.commands)]
          /\ last' = Called("RedrawRequested", scene.dirty,
                            [update_fn |-> rebuild, fired |-> r.fired])
          /\ UNCHANGED <<manager, panicked, containers, builder, fonts, ctx, ui>>

(* ------------------- the scene, driven directly ------------------------ *)

NextScene ==
    \/ \E cmd \in ShapeCommands \cup {DrawCommand("Button", 0, 0, TRUE, TRUE)} :
          SceneBuild(cmd)
    \/ SceneClear
    \/ SceneMarkClean
    \/ SceneMarkDirty

SpecScene == Init /\ [][NextScene]_vars

(* -------- the interaction manager over a fixed command list ------------ *)

\* the scene is built before the first process_interactions call and left
\* alone from then on
NextInteraction ==
    \/ /\ ~hist.processed
       /\ input = InputState_new
       /\ \E cmd \in ButtonCommands \cup {DrawCommand("Rect", 0, 0, FALSE, FALSE)} :
             SceneBuild(cmd)
    \/ \E pos \in Cursors : UpdateMousePosition(pos[1], pos[2])
    \/ ProcessInteractions

SpecInteraction == Init /\ [][NextInteraction]_vars

(* --------------------------- the event loop ---------------------------- *)

NextApp ==
    \/ \E pos \in Cursors : CursorMoved(pos[1], pos[2])
    \/ \E state \in {"Pressed", "Released"}, button \in {"Left", "Other"} :
          MouseInput(state, button)
    \/ Resized
    \/ RedrawRequested

SpecApp == Init /\ [][NextApp]_vars

(* ------------------------------ claims --------------------------------- *)

\* the step is a call of op
IsCall(op) == last'.op = op /\ last'.n # last.n

\* C1: the identities of the handles the factory has returned are pairwise
\* distinct and strictly increasing in call order, whatever calls are interleaved
C1_HandlesIncrease ==
    \A i, j \in 1..Len(handles) : i < j => handles[i] < handles[j]

\* C1 witness: the factory has been called MaxWidgets times with other calls in between
C1_Witness ==
    /\ Len(handles) = MaxWidgets
    /\ MaxWidgets >= 2
    /\ last.op = "take_dirty"

\* C2: take_dirty returns the value the flag had right before the call and
\* leaves it false; a take_dirty right after a take_dirty returns false
C2_TakeReturnsAndClears ==
    [][IsCall("take_dirty") =>
          /\ last'.ret = Some(dirty)
          /\ dirty' = FALSE
          /\ (last.op = "take_dirty" => last'.ret = Some(FALSE))]_vars

\* C2 witness: a take_dirty has returned true and left the flag false
C2_Witness == last.op = "take_dirty" /\ last.ret = Some(TRUE) /\ ~dirty

\* C3 as stated: after any get_mut, whatever is done with the guard, the next
\* take_dirty returns true
C3_AnyGetMutDirties ==
    [][IsCall("take_dirty") /\ gotMut => last'.ret = Some(TRUE)]_vars

\* C3 amended: after a get_mut whose guard was dereferenced mutably the next
\* take_dirty returns true, and a take_dirty that follows an earlier one with
\* no mutable dereference in between returns false
C3_WriteDirties ==
    [][IsCall("take_dirty") =>
          /\ (wrote => last'.ret = Some(TRUE))
          /\ (taken /\ ~wrote => last'.ret = Some(FALSE))]_vars

\* C3 witness: after a take_dirty a guard has been written through
C3_Witness == taken /\ wrote /\ last.op = "get_mut"

\* C4 as stated: after a call of button() the flag is set, so the take_dirty
\* that follows returns true
C4_ButtonDirties == last.op = "button" => dirty

\* the handle's identity is stored in no widget, or in one of another kind
BadHandle(h) ==
    \/ \A i \in 1..Len(widgets) : widgets[i].id # h.id
    \/ \E i \in 1..Len(widgets) : widgets[i].id = h.id /\ widgets[i].kind # h.kind

\* C8: get and get_mut with a handle whose identity is not stored, or is
\* stored in a widget of another kind, panic and leave the widget list, the
\* next identity and the dirty flag unchanged
C8_BadHandlePanics ==
    [][(IsCall("get") \/ IsCall("get_mut")) /\ BadHandle(last'.arg) =>
          /\ panicked' # ""
          /\ widgets' = widgets
          /\ next_id' = next_id
          /\ dirty' = dirty]_vars

\* C8 witness: a get_mut has panicked on a type mismatch
C8_Witness == last.op = "get_mut" /\ panicked = "widget type mismatch"

\* C9: every handle the factory returned resolves, in every later state, to
\* the widget with the handle's identity, which is the widget the call that
\* returned the handle created (the k-th stored one)
C9_OwnHandleResolves ==
    /\ Len(widgets) = Len(handles)
    /\ \A k \in 1..Len(handles) :
          LET h == WidgetHandle(handles[k], "ButtonWidget")
          IN /\ ~LookupPanics(widgets, h)
             /\ FindWidget(widgets, h) = k
             /\ widgets[k].id = h.id
    /\ (last.op \in {"get", "get_mut"} /\ last.arg \in OwnHandles) =>
          /\ Running
          /\ widgets[last.ret[1]].id = last.arg.id

\* C9 witness: get_mut on the handle created last has returned its widget
C9_Witness ==
    /\ Len(handles) = MaxWidgets
    /\ MaxWidgets >= 2
    /\ last.op = "get_mut"
    /\ last.arg = WidgetHandle(handles[MaxWidgets], "ButtonWidget")
    /\ last.ret = Some(MaxWidgets)
    /\ Running

\* C10: a render_all that returns has invoked render once on every stored
\* widget in creation order; one that panics has done so for the widgets
\* before the one whose render panicked
C10_RenderInCreationOrder ==
    last.op = "render_all" =>
        /\ Len(last.ret[1]) <= Len(handles)
        /\ \A k \in 1..Len(last.ret[1]) : last.ret[1][k] = handles[k]
        /\ (Running => Len(last.ret[1]) = Len(handles))

\* C10 witness: render_all has returned with MaxWidgets widgets stored
C10_Witness ==
    last.op = "render_all" /\ Running /\ Len(widgets) = MaxWidgets /\ MaxWidgets >= 2

\* C5 as stated: whenever a widget's visible state differs from what it was
\* at the latest take_dirty, the dirty flag is set or an update_all since
\* that take_dirty has returned true
C5_NoChangeBypassesDirty ==
    snap # None =>
        ((\E i \in 1..Len(snap[1]) : Visible(widgets[i]) # snap[1][i])
            => dirty \/ updTrue)

\* C6 as stated: update_all returns true whenever the snapshot carries a
\* press or release edge of the left, right or middle button, for every
\* number of widgets, zero included
C6_AnyEdgeReported ==
    (last.op = "update_all" /\ AnyEdge(last.arg)) => last.ret = Some(TRUE)

\* C7 as stated: update_all returns true whenever the hovered flag of some
\* widget after the call differs from the flag before the call
C7_HoverFlipReported ==
    [][IsCall("update_all") =>
          ((\E i \in 1..Len(widgets) : widgets'[i].hovered # widgets[i].hovered)
              => last'.ret = Some(TRUE))]_vars

\* a pulse flag of the button is set
AnyPulse(w) ==
    \/ w.just_hovered \/ w.just_unhovered
    \/ w.just_clicked \/ w.just_pressed \/ w.right_clicked

\* the snapshot's previous and current positions are both outside the bounds
OutsideBeforeAndAfter(w, m) ==
    /\ ~Rect_contains(w.bounds, m.x - m.dx, m.y - m.dy)
    /\ ~Rect_contains(w.bounds, m.x, m.y)

\* C11 as stated: after an update whose snapshot is outside the button's
\* current bounds at its previous and at its current position no pulse is
\* true, also when the bounds were changed between two updates
C11_NoPulseOutside ==
    [][IsCall("update_all") =>
          \A i \in 1..Len(widgets) :
              OutsideBeforeAndAfter(widgets[i], last'.arg) => ~AnyPulse(widgets'[i])]_vars

\* C11 amended: after such an update just_hovered, just_clicked, just_pressed
\* and right_clicked are false, and just_unhovered is true exactly when the
\* button's hovered flag was true before the update
C11_OnlyUnhoverOutside ==
    [][IsCall("update_all") =>
          \A i \in 1..Len(widgets) :
              OutsideBeforeAndAfter(widgets[i], last'.arg) =>
                  /\ ~widgets'[i].just_hovered
                  /\ ~widgets'[i].just_clicked
                  /\ ~widgets'[i].just_pressed
                  /\ ~widgets'[i].right_clicked
                  /\ widgets'[i].just_unhovered = widgets[i].hovered]_vars

\* C11 witness: a moved button has been updated with a left press delivered
\* outside its bounds, and no pulse is set
C11_Witness ==
    /\ last.op = "update_all"
    /\ Len(widgets) = 1
    /\ widgets[1].bounds.x # 0
    /\ OutsideBeforeAndAfter(widgets[1], last.arg)
    /\ last.arg.left_just_pressed
    /\ ~AnyPulse(widgets[1])

\* C12 as stated: a left release delivered while the button is pressed, with
\* the pointer inside or outside the bounds, makes just_clicked true after
\* the update that processes it
C12_ReleaseClicksAnywhere ==
    [][IsCall("update_all") =>
          \A i \in 1..Len(widgets) :
              (widgets[i].pressed /\ last'.arg.left_just_released)
                  => widgets'[i].just_clicked]_vars

\* C12 amended: just_clicked is true after exactly the updates that process
\* a left release delivered while the button is pressed and the pointer is
\* inside its bounds, and false after every other update
C12_ReleaseInsideClicks ==
    [][IsCall("update_all") =>
          \A i \in 1..Len(widgets) :
              widgets'[i].just_clicked =
                  (/\ widgets[i].pressed
                   /\ last'.arg.left_just_released
                   /\ Rect_contains(widgets[i].bounds, last'.arg.x, last'.arg.y))]_vars

\* C12 witness: the release of a pressed button has been processed with the
\* pointer inside, and just_clicked is set
C12_Witness ==
    /\ last.op = "update_all"
    /\ Len(widgets) = 1
    /\ last.arg.left_just_released
    /\ ~last.arg.left_just_pressed
    /\ widgets[1].just_clicked
    /\ ~widgets[1].pressed

\* C13 as stated: after every update whose snapshot has left_just_released
\* set, pressed is false, whatever else the snapshot carries
C13_ReleaseClearsPressed ==
    (last.op = "update_all" /\ last.arg.left_just_released)
        => \A i \in 1..Len(widgets) : ~widgets[i].pressed

\* the edge flags of two consecutive snapshots can come from physical edges
\* each reported once: a button's press (release) flag is set in both only
\* if the opposite edge is reported with one of them
OncePerEdge(m1, m2) ==
    /\ (m1.left_just_pressed /\ m2.left_just_pressed)
          => (m1.left_just_released \/ m2.left_just_released)
    /\ (m1.left_just_released /\ m2.left_just_released)
          => (m1.left_just_pressed \/ m2.left_just_pressed)
    /\ (m1.right_just_released /\ m2.right_just_released)
          => (m1.right_just_pressed \/ m2.right_just_pressed)

\* C14 as stated: when every physical edge is reported in one snapshot, no
\* pulse is true after two consecutive updates
C14_NoPulseTwice ==
    [][(IsCall("update_all") /\ last.op = "update_all"
            /\ OncePerEdge(last.arg, last'.arg)) =>
          \A i \in 1..Len(widgets) :
              /\ ~(widgets[i].just_hovered /\ widgets'[i].just_hovered)
              /\ ~(widgets[i].just_unhovered /\ widgets'[i].just_unhovered)
              /\ ~(widgets[i].just_clicked /\ widgets'[i].just_clicked)
              /\ ~(widgets[i].just_pressed /\ widgets'[i].just_pressed)
              /\ ~(widgets[i].right_clicked /\ widgets'[i].right_clicked)]_vars

\* C14 amended: just_hovered and just_unhovered are never true after two
\* consecutive updates; just_pressed, just_clicked and right_clicked are
\* true after two consecutive updates only if the second snapshot carries
\* the pulse's edge flag again
C14_PulseNeedsNewEdge ==
    [][(IsCall("update_all") /\ last.op = "update_all") =>
          \A i \in 1..Len(widgets) :
              /\ ~(widgets[i].just_hovered /\ widgets'[i].just_hovered)
              /\ ~(widgets[i].just_unhovered /\ widgets'[i].just_unhovered)
              /\ (widgets[i].just_clicked /\ widgets'[i].just_clicked)
                    => (last.arg.left_just_released /\ last'.arg.left_just_released)
              /\ (widgets[i].just_pressed /\ widgets'[i].just_pressed)
                    => (last.arg.left_just_pressed /\ last'.arg.left_just_pressed)
              /\ (widgets[i].right_clicked /\ widgets'[i].right_clicked)
                    => (last.arg.right_just_released /\ last'.arg.right_just_released)]_vars

\* C14 witness: an update without edges has followed one that set just_pressed
\* and just_hovered, and no pulse is left
C14_Witness ==
    /\ last.op = "update_all"
    /\ Len(widgets) = 1
    /\ widgets[1].hovered
    /\ widgets[1].pressed
    /\ ~AnyEdge(last.arg)
    /\ ~AnyPulse(widgets[1])

\* the press colour of a button: the one set, or the base colour darkened
PressColour(w) == IF w.press_color = None THEN darken(w.color, 70) ELSE w.press_color[1]

\* the hover colour of a button: the one set, or the base colour lightened
HoverColour(w) == IF w.hover_color = None THEN lighten(w.color, 120) ELSE w.hover_color[1]

\* C15: render fills with the press colour whenever pressed is true, with
\* the hover colour when hovered and not pressed, with the base colour
\* otherwise, and changes none of hovered, pressed and the pulse flags
C15_FillByPriority ==
    [][IsCall("render_all") =>
          /\ \A k \in 1..Len(last'.arg) :
                \E i \in 1..Len(widgets) :
                    /\ widgets[i].id = last'.arg[k].id
                    /\ widgets[i].pressed => last'.arg[k].color = PressColour(widgets[i])
                    /\ (widgets[i].hovered /\ ~widgets[i].pressed)
                          => last'.arg[k].color = HoverColour(widgets[i])
                    /\ (~widgets[i].hovered /\ ~widgets[i].pressed)
                          => last'.arg[k].color = widgets[i].color
          /\ \A i \in 1..Len(widgets) :
                /\ widgets'[i].hovered = widgets[i].hovered
                /\ widgets'[i].pressed = widgets[i].pressed
                /\ widgets'[i].just_hovered = widgets[i].just_hovered
                /\ widgets'[i].just_unhovered = widgets[i].just_unhovered
                /\ widgets'[i].just_clicked = widgets[i].just_clicked
                /\ widgets'[i].just_pressed = widgets[i].just_pressed
                /\ widgets'[i].right_clicked = widgets[i].right_clicked]_vars

\* C15 witness: a button that is hovered and pressed, with a hover and a
\* press colour set, has been rendered in its press colour
C15_Witness ==
    /\ last.op = "render_all"
    /\ Running
    /\ Len(widgets) = 1
    /\ widgets[1].hovered /\ widgets[1].pressed
    /\ widgets[1].hover_color = Some(Red)
    /\ widgets[1].press_color = Some(Blue)
    /\ Len(last.arg) = 1
    /\ last.arg[1].color = Blue

\* a widget of the list has the identity
Resolves(ws, id) == \E i \in 1..Len(ws) : ws[i].id = id

\* the child is a container, or a widget that is in the widget list
ChildResolves(child) == child.kind = "Container" \/ Resolves(widgets, child.ref)

\* the extent <<w, h>> of a resolved child: the widget's size, or the measured
\* size of the nested container
ExtentOf(child) ==
    IF child.kind = "Widget"
    THEN LET w == CHOOSE w \in {widgets[i] : i \in 1..Len(widgets)} : w.id = child.ref
         IN <<w.bounds.w, w.bounds.h>>
    ELSE measure_container(containers[child.ref], containers, widgets)

RECURSIVE SumMain(_, _)
\* the sum of the main-axis extents of the first k children
SumMain(c, k) ==
    IF k = 0 THEN 0 ELSE SumMain(c, k - 1) + MainExtent(c, ExtentOf(c.children[k]))

\* the largest cross-axis extent of the children
MaxCross(c) ==
    LET S == {CrossExtent(c, ExtentOf(c.children[k])) : k \in 1..Len(c.children)}
    IN CHOOSE m \in S : \A e \in S : e <= m

\* the size the container size law gives a container with n >= 1 children:
\* sum(ei) + g*(n-1) + 2p along the main axis, max(cross extents) + 2p across
LawSize(c) ==
    LET main  == SumMain(c, Len(c.children)) + c.gap * (Len(c.children) - 1) + c.padding * 2
        cross == MaxCross(c) + c.padding * 2
    IN IF c.direction = "H" THEN <<main, cross>> ELSE <<cross, main>>

\* C16 as stated: every container with n >= 1 children that all resolve is
\* measured, and computed, with the size the container size law gives
C16_ContainerSizeLaw ==
    last.op = "compute_all" =>
        /\ \A idx \in 1..Len(containers) :
              LET c == containers[idx]
              IN (/\ Len(c.children) >= 1
                  /\ \A k \in 1..Len(c.children) : ChildResolves(c.children[k]))
                    => measure_container(c, containers, widgets) = LawSize(c)
        /\ \A r \in 1..Len(last.ret[1]) :
              LET c == containers[last.ret[1][r].idx]
              IN (/\ Len(c.children) >= 1
                  /\ \A k \in 1..Len(c.children) : ChildResolves(c.children[k]))
                    => last.ret[1][r].size = LawSize(c)

\* C17 as stated: a container none of whose children resolves is measured,
\* and computed, with the main-axis size 2p, which is not negative and does
\* not depend on the gap
C17_EmptyContainerSize ==
    last.op = "compute_all" =>
        /\ \A idx \in 1..Len(containers) :
              LET c == containers[idx]
              IN (\A k \in 1..Len(c.children) : ~ChildResolves(c.children[k]))
                    => /\ MainExtent(c, measure_container(c, containers, widgets)) = c.padding * 2
                       /\ MainExtent(c, measure_container(c, containers, widgets)) >= 0
        /\ \A r \in 1..Len(last.ret[1]) :
              LET c == containers[last.ret[1][r].idx]
              IN (\A k \in 1..Len(c.children) : ~ChildResolves(c.children[k]))
                    => MainExtent(c, last.ret[1][r].size) = c.padding * 2

\* C18: a compute_all that directly follows a compute_all leaves the bounds
\* of every widget as they were
C18_ComputeAllIdempotent ==
    [][(IsCall("compute_all") /\ last.op = "compute_all") =>
          \A i \in 1..Len(widgets) : widgets'[i].bounds = widgets[i].bounds]_vars

\* C18 witness: compute_all has run twice on two root containers that both
\* list the first widget, and has moved it
C18_Witness ==
    /\ last.op = "compute_all"
    /\ last.n = 0
    /\ Len(last.ret[1]) = 2
    /\ \A idx \in 1..Len(containers) :
          \E k \in 1..Len(containers[idx].children) :
              containers[idx].children[k] = WidgetChild(0)
    /\ widgets[1].bounds.x # 0

\* C19: in the nested layout scenario compute_all places A's widgets at
\* (40,40) and (40,82), measures A as 180 wide and 74 high, and places B's
\* widget at (236,40)
C19_NestedScenario ==
    (containers = NestedScene.containers /\ last.op = "compute_all") =>
        /\ widgets[1].bounds.x = 40 /\ widgets[1].bounds.y = 40
        /\ widgets[2].bounds.x = 40 /\ widgets[2].bounds.y = 82
        /\ measure_container(containers[1], containers, widgets) = <<180, 74>>
        /\ widgets[3].bounds.x = 236 /\ widgets[3].bounds.y = 40

\* C19 witness: compute_all has run on the nested layout scenario
C19_Witness ==
    /\ containers = NestedScene.containers
    /\ widgets[3].bounds.w = 180
    /\ last.op = "compute_all"
    /\ last.ret[1] = <<[idx |-> 3, size |-> <<376, 74>>]>>

\* the containers without the widget children that are not in the widget list
WithoutMissing(cs, ws) ==
    [idx \in 1..Len(cs) |->
        [cs[idx] EXCEPT !.children =
            SelectSeq(@, LAMBDA ch : ch.kind = "Container" \/ Resolves(ws, ch.ref))]]

\* C20: compute_all completes without a panic, places the widgets and
\* returns the sizes exactly as if the children that name no widget of the
\* list had not been listed, and leaves every widget no container lists as
\* it was
C20_MissingChildSkipped ==
    [][IsCall("compute_all") =>
          /\ panicked' = ""
          /\ widgets' = compute_all(WithoutMissing(containers, widgets), widgets).widgets
          /\ last'.ret = Some(compute_all(WithoutMissing(containers, widgets), widgets).sizes)
          /\ \A i \in 1..Len(widgets) :
                (\A idx \in 1..Len(containers) : \A k \in 1..Len(containers[idx].children) :
                    containers[idx].children[k] # WidgetChild(widgets[i].id))
                  => widgets'[i] = widgets[i]]_vars

\* C20 witness: compute_all has run on a container that lists a missing
\* widget before the second button and a gap, and the button sits at the
\* container's origin plus padding
C20_Witness ==
    /\ last.op = "compute_all"
    /\ Len(containers) = 2
    /\ containers[2].children = <<WidgetChild(2), WidgetChild(1)>>
    /\ containers[2].gap > 0
    /\ containers[2].direction = "H"
    /\ containers[1].children = <<>>
    /\ widgets[2].bounds.x = containers[2].x + containers[2].padding
    /\ widgets[1].bounds.x = 0


\* the container graph is a forest: no container is reachable from itself
\* and no container is listed twice, by two parents or by one
Forest(cs) ==
    /\ \A i \in 1..Len(cs) : i \notin Below(cs, Kids(cs, i), Len(cs))
    /\ \A i \in 1..Len(cs) :
          Cardinality({<<p, k>> \in (1..Len(cs)) \X (1..MaxCalls) :
                          /\ k <= Len(cs[p].children)
                          /\ cs[p].children[k] = ContainerChild(i)}) <= 1

\* C21: every container graph built through hstack, vstack, add,
\* add_container and as_ref is a forest, and compute_all returns on it
C21_BuiltGraphIsForest ==
    /\ Forest(containers)
    /\ last.op = "compute_all" => Running

\* C21, the graphs the builder produces with add_container given a reference
\* to the builder's own container: a root that lists such a container
\* is computed
C21_Witness == last.op = "compute_all" /\ ~Running

\* the containers with the origin of every nested container reset to (0, 0)
Unpositioned(cs) ==
    [i \in 1..Len(cs) |->
        IF is_child(cs)[i] THEN [cs[i] EXCEPT !.x = 0, !.y = 0] ELSE cs[i]]

\* C22: a compute_all that returns has run compute for exactly the
\* containers that no child list names, in creation order, and has left the
\* widgets where it leaves them when no nested container was given a position
C22_OnlyRootsPlaced ==
    [][(IsCall("compute_all") /\ Running') =>
          /\ [k \in 1..Len(last'.ret[1]) |-> last'.ret[1][k].idx]
               = SelectSeq([i \in 1..Len(containers) |-> i],
                           LAMBDA i : \A p \in 1..Len(containers) : i \notin Kids(containers, p))
          /\ widgets' = compute_all(Unpositioned(containers), widgets).widgets]_vars

\* C22, a nested container that was given a position and lists a widget
\* has been laid out by its parent
C22_Witness ==
    /\ last.op = "compute_all"
    /\ Running
    /\ \E i \in 1..Len(containers) :
          /\ is_child(containers)[i]
          /\ <<containers[i].x, containers[i].y>> # <<0, 0>>
          /\ \E k \in 1..Len(containers[i].children) :
                containers[i].children[k] = WidgetChild(0)

\* C23: for every container and every widget list, before and after a
\* layout pass, measure_container returns the size Container::compute
\* returns for that container
C23_MeasureAgreesWithCompute ==
    \A i \in 1..Len(containers) :
        measure_container(containers[i], containers, widgets)
            = Container_compute(containers[i], containers, widgets).size

\* C23, a root that lists a container which lists a widget of the list has
\* been computed, the nested container measured on the way
C23_Witness ==
    /\ last.op = "compute_all"
    /\ \E r \in 1..Len(containers) :
          /\ ~is_child(containers)[r]
          /\ \E i \in Kids(containers, r) :
                /\ \E k \in 1..Len(containers[i].children) :
                      /\ containers[i].children[k].kind = "Widget"
                      /\ Resolves(widgets, containers[i].children[k].ref)
                /\ measure_container(containers[i], containers, widgets)[1] > 0

\* the bounds auto-sizing gives a button: the measured size of its text in
\* its font plus the padding on both sides
AutoSized(w) ==
    LET m == Fonts_measure(w.text, w.font[1])
    IN /\ w.bounds.w = m[1] + default_padding * 2
       /\ w.bounds.h = m[2] + default_padding * 2

\* C24: in every frame, the bounds compute_all reads of a button with
\* auto_size set are the measured size of its current text plus the padding
\* on both sides
C24_AutoSizedBeforeLayout ==
    [][IsCall("compute_all") =>
          \A i \in 1..Len(widgets) :
              (/\ widgets[i].auto_size
               /\ \E c \in 1..Len(containers) : \E k \in 1..Len(containers[c].children) :
                     containers[c].children[k] = WidgetChild(widgets[i].id))
              => AutoSized(widgets[i])]_vars

\* C25: a measure of a cached (font id, text) returns the cached value and
\* leaves the Fonts as it was; a measure that misses appends the value it
\* returns; no step changes or removes a cached entry, and no two entries
\* of the cache have the same key
C25_MeasureMemoized ==
    [][LET cache == fonts.measure_cache
           key   == <<last'.arg[1], last'.arg[2]>>
           hit   == CacheFind(cache, key)
       IN /\ \A k \in 1..Len(cache) :
                k <= Len(fonts'.measure_cache) /\ fonts'.measure_cache[k] = cache[k]
          /\ \A j, k \in 1..Len(fonts'.measure_cache) :
                fonts'.measure_cache[j].key = fonts'.measure_cache[k].key => j = k
          /\ (IsCall("measure") /\ hit # 0) =>
                /\ last'.ret = Some(cache[hit].value)
                /\ fonts' = fonts
          /\ (IsCall("measure") /\ hit = 0 /\ Running') =>
                fonts'.measure_cache = Append(cache, [key |-> key, value |-> last'.ret[1]])]_vars

\* C25, a text was measured a second time while the shaper would give it
\* another width than the cached one
C25_Witness ==
    /\ last.op = "measure"
    /\ Running
    /\ last.ret[1][1] # last.arg[3]
    /\ \E k \in 1..Len(fonts.measure_cache) :
          fonts.measure_cache[k] = [key |-> <<last.arg[1], last.arg[2]>>, value |-> last.ret[1]]

\* the ids of the stored elements, rects then texts then buttons
StoredIds(store) ==
    [k \in 1..Len(store.rects) |-> store.rects[k].id]
    \o [k \in 1..Len(store.texts) |-> store.texts[k].id]
    \o [k \in 1..Len(store.buttons) |-> store.buttons[k].id]

\* no id is stored twice
UniqueIds(store) ==
    \A j, k \in 1..Len(StoredIds(store)) :
        StoredIds(store)[j] = StoredIds(store)[k] => j = k

\* C26: in Ctx and in Ui no two stored elements share an id, whatever
\* their collections, and a rect, text or button call with an id in use
\* panics and leaves the collections and the dirty flag as they were
C26_ElementIdsUnique ==
    [][/\ UniqueIds(ctx')
       /\ UniqueIds(ui')
       /\ \A coll \in {"rects", "texts", "buttons"} :
             (/\ IsCall(coll)
              /\ id_exists(IF last'.arg[1] = "ctx" THEN ctx ELSE ui, last'.arg[2]))
             => (~Running' /\ ctx' = ctx /\ ui' = ui)]_vars

\* C26, a text was declared with the id of a stored rect, or a button with
\* the id of a stored text
C26_Witness ==
    /\ last.op \in {"texts", "buttons"}
    /\ panicked = "Element with id already exists!"
    /\ LET store == IF last.arg[1] = "ctx" THEN ctx ELSE ui
       IN /\ ~id_exists_rects_only(store, last.arg[2]) \/ last.op = "texts"
          /\ store.dirty
          /\ Len(StoredIds(store)) = 2

\* C27: begin_frame leaves no button just pressed or just released and a
\* mouse delta of zero, and changes neither a button's level state nor the
\* mouse position
C27_BeginFrameClearsPulses ==
    [][IsCall("begin_frame") =>
          /\ \A b \in MouseButtons : ~input'.just_pressed[b] /\ ~input'.just_released[b]
          /\ mouse_delta(input') = <<0, 0>>
          /\ input'.pressed_buttons = input.pressed_buttons
          /\ input'.mouse_position = input.mouse_position]_vars

\* C27, begin_frame was called with a button held and just pressed, another
\* just released, and the mouse moved since the previous frame
C27_Witness ==
    /\ last.op = "begin_frame"
    /\ \E b \in MouseButtons : last.arg.just_pressed[b] /\ input.pressed_buttons[b]
    /\ \E b \in MouseButtons : last.arg.just_released[b]
    /\ mouse_delta(last.arg) # <<0, 0>>
    /\ input.mouse_position # <<0, 0>>

\* C28: after every update hovered tells whether the bounds, as they were
\* at the call, contain the pointer; just_hovered is true exactly when
\* hovered went from false to true in the call and just_unhovered exactly
\* when it went from true to false, so just_hovered implies hovered,
\* just_unhovered implies not hovered, and the two are never both true
C28_HoverFollowsPointer ==
    [][IsCall("update_all") =>
          \A i \in 1..Len(widgets) :
              LET w == widgets[i]
                  u == widgets'[i]
              IN /\ u.hovered = Rect_contains(w.bounds, last'.arg.x, last'.arg.y)
                 /\ u.just_hovered = (~w.hovered /\ u.hovered)
                 /\ u.just_unhovered = (w.hovered /\ ~u.hovered)
                 /\ u.just_hovered => u.hovered
                 /\ u.just_unhovered => ~u.hovered
                 /\ ~(u.just_hovered /\ u.just_unhovered)]_vars

\* C28, the button was moved under the resting pointer and the next update
\* found it hovered, or moved away and the next update found it unhovered
C28_Witness ==
    /\ last.op = "update_all"
    /\ <<last.arg.dx, last.arg.dy>> = <<0, 0>>
    /\ Len(widgets) = 1
    /\ widgets[1].bounds.x # 0
    /\ widgets[1].just_hovered \/ widgets[1].just_unhovered

\* C29: pressed becomes true only in an update with the pointer inside the
\* bounds and left_just_pressed set; just_clicked is true only after an
\* update with the pointer inside, left_just_released set and pressed true
\* before; and a press with the pointer outside the bounds, released in the
\* next update, produces no just_clicked
C29_ClickNeedsPressInside ==
    [][\A i \in 1..Len(widgets) :
          LET w    == widgets[i]
              u    == widgets'[i]
              over == Rect_contains(w.bounds, last'.arg.x, last'.arg.y)
          IN /\ (~w.pressed /\ u.pressed) =>
                   (IsCall("update_all") /\ over /\ last'.arg.left_just_pressed)
             /\ (IsCall("update_all") /\ u.just_clicked) =>
                   (over /\ last'.arg.left_just_released /\ w.pressed)
             /\ (/\ IsCall("update_all")
                 /\ last.op = "update_all"
                 /\ last.arg.left_just_pressed
                 /\ ~last.arg.left_just_released
                 /\ ~Rect_contains(w.bounds, last.arg.x, last.arg.y))
                => ~u.just_clicked]_vars

\* C30: an update_all with a snapshot that has no left or right press or
\* release edge, and whose previous and current positions are both inside
\* or both outside every widget's bounds, returns false; update_all leaves
\* the persisted dirty flag as it was
C30_NoChangeReturnsFalse ==
    [][IsCall("update_all") =>
          LET m == last'.arg
          IN /\ dirty' = dirty
             /\ (/\ ~m.left_just_pressed /\ ~m.left_just_released
                 /\ ~m.right_just_pressed /\ ~m.right_just_released
                 /\ \A i \in 1..Len(widgets) :
                       Rect_contains(widgets[i].bounds, m.x - m.dx, m.y - m.dy)
                           = Rect_contains(widgets[i].bounds, m.x, m.y))
                => last'.ret = Some(FALSE)]_vars

\* C30, the pointer moved without entering or leaving the button, a middle
\* button edge or none in the snapshot, and update_all returned false
C30_Witness ==
    /\ last.op = "update_all"
    /\ last.ret = Some(FALSE)
    /\ Len(widgets) = 1
    /\ last.arg.dx # 0

\* C31: a get, and a get_mut whose guard is dropped or only read through
\* (no guard has been written through since the latest take_dirty), leave
\* the dirty flag as it was
C31_ReadsDoNotDirty ==
    [][(IsCall("get") \/ (IsCall("get_mut") /\ ~wrote')) => dirty' = dirty]_vars

\* C31, after a take_dirty a guard was obtained and nothing written through
\* it: the flag is still clear
C31_Witness ==
    /\ last.op = "get_mut"
    /\ Running
    /\ taken
    /\ gotMut
    /\ ~wrote
    /\ ~dirty

\* the number of places where a child list names the widget
Listings(id) ==
    Cardinality({<<c, k>> \in (1..Len(containers)) \X (1..MaxCalls) :
                    /\ k <= Len(containers[c].children)
                    /\ containers[c].children[k] = WidgetChild(id)})

\* the number of places where a child list names the container
ContainerListings(idx) ==
    Cardinality({<<c, k>> \in (1..Len(containers)) \X (1..MaxCalls) :
                    /\ k <= Len(containers[c].children)
                    /\ containers[c].children[k] = ContainerChild(idx)})

\* the widget of the list with the identity
WidgetOf(id) == CHOOSE w \in {widgets[i] : i \in 1..Len(widgets)} : w.id = id

\* the resolved children of c before position k
Before(c, k) == {j \in 1..(k - 1) : ChildResolves(c.children[j])}

RECURSIVE SumOver(_, _)
\* the sum of the main-axis extents of the children of c at the positions S
SumOver(c, S) ==
    IF S = {} THEN 0
    ELSE LET j == CHOOSE j \in S : TRUE
         IN MainExtent(c, ExtentOf(c.children[j])) + SumOver(c, S \ {j})

\* where the placement law puts the child at position k of container c whose
\* origin is o: padding, the extents of the resolved children before it and
\* one gap for each of them along the main axis, padding across
LawPosition(c, o, k) ==
    LET main == c.padding + SumOver(c, Before(c, k)) + Cardinality(Before(c, k)) * c.gap
    IN IF c.direction = "H"
       THEN <<o[1] + main, o[2] + c.padding>>
       ELSE <<o[1] + c.padding, o[2] + main>>

\* the widget child at position k of c, listed nowhere else, is where the
\* law puts it, and not before the end of any widget child listed before it
\* when no extent in between is negative
LawHolds(c, o, k) ==
    LET child == c.children[k]
    IN (child.kind = "Widget" /\ Resolves(widgets, child.ref) /\ Listings(child.ref) = 1) =>
          /\ <<WidgetOf(child.ref).bounds.x, WidgetOf(child.ref).bounds.y>> = LawPosition(c, o, k)
          /\ \A j \in Before(c, k) :
                (/\ c.children[j].kind = "Widget"
                 /\ Listings(c.children[j].ref) = 1
                 /\ c.gap >= 0
                 /\ \A i \in Before(c, k) : MainExtent(c, ExtentOf(c.children[i])) >= 0)
                => LET a == WidgetOf(c.children[j].ref).bounds
                       b == WidgetOf(child.ref).bounds
                   IN IF c.direction = "H" THEN b.x >= a.x + a.w ELSE b.y >= a.y + a.h

\* C32: after compute_all, every widget child of a root, and of a container
\* nested in a root, that was placed once is at origin + padding + the main-axis extents of the
\* resolved children before it + one gap for each of them along the main
\* axis of its container and at origin + padding across, the origin of a
\* nested container being the position the same law gives it in its parent
C32_PlacementLaw ==
    last.op = "compute_all" =>
        \A r \in 1..Len(containers) :
            ~is_child(containers)[r] =>
                \A k \in 1..Len(containers[r].children) :
                    LET c == containers[r]
                        o == <<c.x, c.y>>
                    IN /\ LawHolds(c, o, k)
                       /\ (c.children[k].kind = "Container"
                           /\ ContainerListings(c.children[k].ref) = 1) =>
                             \A m \in 1..Len(containers[c.children[k].ref].children) :
                                 LawHolds(containers[c.children[k].ref], LawPosition(c, o, k), m)

\* C32, a root with padding has placed a nested container whose second
\* resolved child is a widget listed nowhere else
C32_Witness ==
    /\ last.op = "compute_all"
    /\ \E r \in 1..Len(containers) :
          /\ ~is_child(containers)[r]
          /\ containers[r].padding > 0
          /\ \E j \in Kids(containers, r), m \in 1..MaxChildren :
                /\ ContainerListings(j) = 1
                /\ m <= Len(containers[j].children)
                /\ containers[j].children[m].kind = "Widget"
                /\ Resolves(widgets, containers[j].children[m].ref)
                /\ Listings(containers[j].children[m].ref) = 1
                /\ Before(containers[j], m) # {}

\* C33: whenever a layout pass runs, for every container, nested or not,
\* and every origin, set_container_origin leaves the widgets where Container::compute leaves
\* them for the same container with its position set to that origin
C33_NestedPlacedAsRoot ==
    [][IsCall("compute_all") =>
          \A idx \in 1..Len(containers) : \A o \in {<<0, 0>>, <<4, 5>>} :
              set_container_origin(idx, o[1], o[2], containers, widgets)
                  = Container_compute([containers[idx] EXCEPT !.x = o[1], !.y = o[2]],
                                      containers, widgets).widgets]_vars

\* C33, a container that lists a container with a resolved widget, with
\* padding and a widget before the nested container, has been laid out
C33_Witness ==
    /\ last.op = "compute_all"
    /\ \E idx \in 1..Len(containers) :
          /\ containers[idx].padding > 0
          /\ Len(containers[idx].children) = 2
          /\ containers[idx].children[1].kind = "Widget"
          /\ Resolves(widgets, containers[idx].children[1].ref)
          /\ containers[idx].children[2].kind = "Container"
          /\ \E k \in 1..Len(containers[containers[idx].children[2].ref].children) :
                Resolves(widgets, containers[containers[idx].children[2].ref].children[k].ref)

\* the roots and the containers nested in them, at any depth
Reached(cs) ==
    Below(cs, {r \in 1..Len(cs) : ~is_child(cs)[r]}, Len(cs))

\* a container reachable from a root lists the widget
Laid(cs, id) ==
    \E c \in Reached(cs) : \E k \in 1..Len(cs[c].children) :
        cs[c].children[k] = WidgetChild(id)

\* C34: a compute_all that returns changes no container, changes of a widget
\* nothing but the x and y of its bounds, and changes nothing of a widget
\* that no container reachable from a root lists
C34_ComputeOnlyMoves ==
    [][(IsCall("compute_all") /\ Running') =>
          /\ containers' = containers
          /\ Len(widgets') = Len(widgets)
          /\ \A i \in 1..Len(widgets) :
                /\ widgets'[i] = [widgets[i] EXCEPT !.bounds.x = widgets'[i].bounds.x,
                                                     !.bounds.y = widgets'[i].bounds.y]
                /\ ~Laid(containers, widgets[i].id) => widgets'[i] = widgets[i]]_vars

\* C34, compute_all has returned and left the widget alone: the container
\* that lists it is no root and in no root
C34_Witness ==
    /\ last.op = "compute_all"
    /\ Running
    /\ ~Laid(containers, widgets[1].id)
    /\ \E c \in 1..Len(containers) : \E k \in 1..Len(containers[c].children) :
          containers[c].children[k] = WidgetChild(widgets[1].id)

\* C35: every container index in the child list of container i is the index
\* of a container of the manager and is at most i, and compute_all never
\* indexes out of range
C35_ChildIndicesInRange ==
    /\ \A i \in 1..Len(containers) : \A k \in 1..Len(containers[i].children) :
          containers[i].children[k].kind = "Container" =>
              /\ containers[i].children[k].ref \in 1..Len(containers)
              /\ containers[i].children[k].ref <= i
    /\ last.op = "compute_all" => panicked # "index out of bounds"

\* C36: a new Scene is dirty; a dropped builder appends its one command at
\* the end of the list and sets dirty; clear empties the list and sets
\* dirty; no call but mark_clean takes dirty away; and a scene that is not
\* dirty has the command list of the latest mark_clean
C36_SceneDirtyTracking ==
    /\ [](/\ last.op = "new" => scene.commands = <<>> /\ is_dirty(scene)
          /\ ~is_dirty(scene) => hist.cleaned = Some(scene.commands))
    /\ [][/\ IsCall("drop") =>
                /\ scene'.commands = Append(scene.commands, last'.arg)
                /\ is_dirty(scene')
          /\ IsCall("clear") => scene'.commands = <<>> /\ is_dirty(scene')
          /\ is_dirty(scene) /\ ~is_dirty(scene') => IsCall("mark_clean")]_vars

\* C36, a scene that was marked clean with commands in it has been cleared
C36_Witness ==
    /\ last.op = "clear"
    /\ ~last.arg.dirty
    /\ last.arg.commands # <<>>
    /\ hist.cleaned = Some(last.arg.commands)
    /\ scene.commands = <<>>
    /\ scene.dirty

\* C37: a redraw runs the user callback exactly when the scene is dirty; a
\* redraw of a clean scene leaves the command list alone; after a redraw
\* the scene is clean and no button is just pressed or just released; and
\* every redraw processes the interactions of the commands it draws
C37_RetainedRedraw ==
    [][IsCall("RedrawRequested") =>
          /\ last'.ret.update_fn = scene.dirty
          /\ ~scene.dirty => scene'.commands = scene.commands
          /\ ~scene'.dirty
          /\ \A b \in MouseButtons : ~input'.just_pressed[b] /\ ~input'.just_released[b]
          /\ interaction'.hovered_elements
                = ButtonsAt(scene'.commands, input.mouse_position)
          /\ interaction'.prev_hovered_elements = interaction.hovered_elements]_vars

\* C37, a clean scene with a button in it was redrawn: the callback did not
\* run, the interactions were processed and a button was clicked
C37_Witness ==
    /\ last.op = "RedrawRequested"
    /\ ~last.arg
    /\ ~last.ret.update_fn
    /\ hist.cleaned = Some(scene.commands)
    /\ \E idx \in Indices : Invocations(last.ret.fired, idx, "on_click", TRUE) = 1
    /\ ~scene.dirty

\* C38: a cursor move after which some button holds the pointer that did
\* not before, or the other way round, requests a redraw
C38_HoverChangeRequestsRedraw ==
    [][IsCall("CursorMoved") =>
          (ButtonsAt(scene.commands, input.mouse_position)
              # ButtonsAt(scene.commands, input'.mouse_position) => last'.ret)]_vars

\* C39: over a command list that stays as it is, a process_interactions
\* call invokes a button's on_hover with true once if the button holds the
\* pointer and did not at the previous call and not otherwise, with false
\* once if it does not hold it and did at the previous call and not
\* otherwise; an enter never follows an enter, an exit follows an enter;
\* and is_hovered tells of every index whether it is a button that holds
\* the pointer
C39_HoverEnterExit ==
    [][IsCall("process_interactions") =>
          /\ \A idx \in Indices :
                idx < Len(scene.commands) /\ scene.commands[idx + 1].on_hover =>
                   LET now == idx \in ButtonsAt(scene.commands, input.mouse_position)
                       before == idx \in hist.inside
                       enters == Invocations(last'.ret, idx, "on_hover", TRUE)
                       exits == Invocations(last'.ret, idx, "on_hover", FALSE)
                   IN /\ enters = (IF now /\ ~before THEN 1 ELSE 0)
                      /\ exits = (IF ~now /\ before THEN 1 ELSE 0)
                      /\ enters = 1 => hist.told[idx] # "enter"
                      /\ exits = 1 => hist.told[idx] = "enter"
          /\ \A idx \in Indices :
                is_hovered(interaction', idx)
                   = (idx \in ButtonsAt(scene.commands, input.mouse_position))]_vars

\* C39, one call has told a button that the pointer left it and another
\* button that the pointer entered it
C39_Witness ==
    /\ last.op = "process_interactions"
    /\ \E idx, other \in Indices :
          /\ Invocations(last.ret, idx, "on_hover", FALSE) = 1
          /\ Invocations(last.ret, other, "on_hover", TRUE) = 1
          /\ hist.told[idx] = "exit"
          /\ hist.told[other] = "enter"
          /\ is_hovered(interaction, other)
          /\ ~is_hovered(interaction, idx)
          /\ idx \in interaction.prev_hovered_elements

\* C40: no button's on_click is invoked twice since the left button went
\* down; a press event for a button that is down and a release event for
\* one that is up leave the input as it is; a redraw invokes on_click only
\* of a button that holds the pointer and only when the left button is just
\* pressed; and after the redraw it no longer is
C40_ClickOncePerPress ==
    /\ [](\A idx \in Indices : hist.clicks[idx] <= 1)
    /\ [][/\ IsCall("MouseInput") /\ last'.arg[2] \in MouseButtons =>
                /\ last'.arg[1] = "Pressed" =>
                      input'.just_pressed[last'.arg[2]]
                         = (input.just_pressed[last'.arg[2]]
                               \/ ~input.pressed_buttons[last'.arg[2]])
                /\ last'.arg[1] = "Pressed" /\ input.pressed_buttons[last'.arg[2]] =>
                      input' = input
                /\ last'.arg[1] = "Released" /\ ~input.pressed_buttons[last'.arg[2]] =>
                      input' = input
          /\ IsCall("RedrawRequested") =>
                /\ \A idx \in Indices :
                      Invocations(last'.ret.fired, idx, "on_click", TRUE) > 0 =>
                         /\ input.just_pressed["Left"]
                         /\ idx \in ButtonsAt(scene'.commands, input.mouse_position)
                /\ ~input'.just_pressed["Left"]]_vars

\* C40, the left button is held over a button that was clicked once since
\* it went down, and the latest redraw has invoked nothing
C40_Witness ==
    /\ last.op = "RedrawRequested"
    /\ hist.held
    /\ input.pressed_buttons["Left"]
    /\ last.ret.fired = <<>>
    /\ \E idx \in ButtonsAt(scene.commands, input.mouse_position) :
          /\ scene.commands[idx + 1].on_click
          /\ hist.clicks[idx] = 1

============================================================================
